---- MODULE Spec2Model ----
(***************************************************************************)
(* Active-inference agent core: seeded random source, discrete beliefs,    *)
(* fixed and Dirichlet-learnable observation / transition models, the      *)
(* policy search of Agent.act and the perception-action cycle Agent.step.  *)
(*                                                                         *)
(* Numbers.  The program computes in IEEE doubles.  The model computes in  *)
(* fixed point: a real x is the integer floor(x * ONE).  Math.log and      *)
(* Math.exp are evaluated to that precision by range reduction and a       *)
(* truncated series.  The 32-bit state of the random source is kept        *)
(* exactly, as a pair of 16-bit halves <<hi, lo>>.                         *)
(***************************************************************************)
EXTENDS Integers, Sequences, FiniteSets, TLC

\* ------------------------------------------------------------------ numbers

\* The fixed-point unit: the integer that stands for the real number 1.
ONE == 2^12

FMul(a, b) == (a * b) \div ONE

FDiv(a, b) == (a * ONE) \div b

Abs(x) == IF x < 0 THEN -x ELSE x

Max2(a, b) == IF a >= b THEN a ELSE b

\* The element of a one-element set.  In Only({F(x) : x \in {e}}) the value
\* of e is computed once and F uses it as x.
Only(S) == CHOOSE x \in S : TRUE

\* The sum of the first n cells, left to right.
RECURSIVE SumUpTo(_, _)
SumUpTo(q, n) == IF n = 0 THEN 0 ELSE SumUpTo(q, n - 1) + q[n]

\* arr.reduce((a, b) => a + b, 0)
SumSeq(q) == LET cells == <<>> \o q IN SumUpTo(cells, Len(cells))

RECURSIVE MaxUpTo(_, _)
MaxUpTo(q, n) == IF n = 1 THEN q[1] ELSE Max2(MaxUpTo(q, n - 1), q[n])

\* Math.max(...arr), for a non-empty array
MaxSeq(q) == LET cells == <<>> \o q IN MaxUpTo(cells, Len(cells))

\* ln 2 in fixed point (0.69315 * ONE).
LN2 == (69315 * ONE) \div 100000

\* Math.log(x) for a fixed-point x > 0: halve or double x, k times, into
\* [3/4, 3/2), then ln x = 2 atanh z with z = (x - 1) / (x + 1).
RECURSIVE LogReduce(_, _)
LogReduce(x, k) ==
    IF 4 * x < 3 * ONE THEN LogReduce(2 * x, k - 1)
    ELSE IF 2 * x >= 3 * ONE THEN LogReduce(x \div 2, k + 1)
    ELSE <<x, k>>

MathLog(x) ==
    LET Series(k, z, z2) ==
            LET z3 == FMul(z2, z)
            IN  k * LN2 + 2 * (z + (z3 \div 3) + (FMul(z3, z2) \div 5))
        Atanh(k, z) == Only({Series(k, z, z2) : z2 \in {FMul(z, z)}})
        Reduced(r) ==
            Only({Atanh(r[2], z) : z \in {FDiv(r[1] - ONE, r[1] + ONE)}})
    IN  Only({Reduced(r) : r \in {LogReduce(x, 0)}})

\* Math.exp(x) for a fixed-point x <= 0: exp(-y) = 2^(-k) exp(-r) with
\* y = k ln 2 + r, 0 <= r < ln 2, and exp(-r) by its series to r^5.
MathExp(x) ==
    LET Series(k, r, r2, r3) ==
            LET r4 == FMul(r3, r)
                e  == ONE - r + (r2 \div 2) - (r3 \div 6) + (r4 \div 24)
                          - (FMul(r4, r) \div 120)
            IN  IF k >= 13 THEN 0 ELSE e \div (2^k)
        Cube(k, r, r2) == Only({Series(k, r, r2, r3) : r3 \in {FMul(r2, r)}})
        Square(k, r) == Only({Cube(k, r, r2) : r2 \in {FMul(r, r)}})
    IN  Only({Square(y \div LN2, y % LN2) : y \in {0 - x}})

\* ------------------------------------------------------------ 32-bit words

RECURSIVE BitXor(_, _, _)
BitXor(a, b, n) ==
    IF n = 0 THEN 0
    ELSE (((a % 2) + (b % 2)) % 2) + 2 * BitXor(a \div 2, b \div 2, n - 1)

RECURSIVE BitOr(_, _, _)
BitOr(a, b, n) ==
    IF n = 0 THEN 0
    ELSE (IF (a % 2) + (b % 2) > 0 THEN 1 ELSE 0)
         + 2 * BitOr(a \div 2, b \div 2, n - 1)

\* (x + y) | 0
WAdd(x, y) ==
    LET lo == x[2] + y[2]
        hi == x[1] + y[1] + (lo \div 65536)
    IN  <<hi % 65536, lo % 65536>>

\* x ^ y
WXor(x, y) == <<BitXor(x[1], y[1], 16), BitXor(x[2], y[2], 16)>>

\* c | x for a constant c below 2^16
WOrLow(c, x) == <<x[1], BitOr(x[2], c, 16)>>

\* x >>> k for 0 < k < 16
WShr(x, k) ==
    <<x[1] \div (2^k), (x[2] \div (2^k)) + (x[1] % (2^k)) * (2^(16 - k))>>

\* Math.imul(x, y): the low 32 bits of the product, by bytes.
imul(x, y) ==
    LET Product(x0, x1, x2, x3, y0, y1, y2, y3) ==
            LET k0 == x0 * y0
                k1 == x0 * y1 + x1 * y0 + (k0 \div 256)
                k2 == x0 * y2 + x1 * y1 + x2 * y0 + (k1 \div 256)
                k3 == x0 * y3 + x1 * y2 + x2 * y1 + x3 * y0 + (k2 \div 256)
            IN  <<(k3 % 256) * 256 + (k2 % 256),
                  (k1 % 256) * 256 + (k0 % 256)>>
    IN  Only({Product(a[2] % 256, a[2] \div 256, a[1] % 256, a[1] \div 256,
                      b[2] % 256, b[2] \div 256, b[1] % 256, b[1] \div 256) :
                 a \in {x}, b \in {y}})

\* new Random(seed): the state is the seed itself.
RandomNew(seed) == <<seed \div 65536, seed % 65536>>

\* Random.next(): the new state and the 32-bit value u; the draw is u / 2^32.
RandomNext(state) ==
    LET Out(s, v) == [state |-> s, u |-> WXor(v, WShr(v, 14))]
        Second(s, t) ==
            Only({Out(s, v) :
                     v \in {WXor(WAdd(t, imul(WXor(t, WShr(t, 7)),
                                              WOrLow(61, t))), t)}})
        First(s) ==
            Only({Second(s, t) :
                     t \in {imul(WXor(s, WShr(s, 15)), WOrLow(1, s))}})
    IN  Only({First(s) : s \in {WAdd(state, <<27947, 31221>>)}})

\* rand < cumulative, for the draw u / 2^32 and a fixed-point cumulative c:
\* u / 2^32 < c / ONE  iff  floor(u / 2^20) < c.
DrawBelow(u, c) == (u[1] \div 16) < c


\* ------------------------------------------------------------- the fixture
\* The two-state environment of the learning tests: states, observations and
\* actions in their declared (Object.keys) order.

StateOrder == <<"safe", "danger">>

ObsOrder == <<"see_safe", "see_danger">>

ActionOrder == <<"flee", "stay">>

States == {StateOrder[i] : i \in 1..Len(StateOrder)}

Observations == {ObsOrder[i] : i \in 1..Len(ObsOrder)}

Actions == {ActionOrder[i] : i \in 1..Len(ActionOrder)}

\* An observation key no model declares.
UnknownObs == "see_other"

\* null
NULL == "null"

\* NaN, the result of 0 / 0: a value apart from every probability and every
\* cumulative sum, which are never negative.
NaN == 0 - 1

\* The four-state environment of the planning test "planning avoids trap
\* that greedy falls into": its states, observations and actions in their
\* declared order.
TrapKeyOrder ==
    <<"start", "trap", "doom", "safe",
      "see_start", "see_trap", "see_doom", "see_safe",
      "go_trap", "go_safe">>

\* Object.keys(obj) for an object whose keys were inserted in declared
\* order: that of `order` for an object of the two-state environment, that
\* of the four-state environment otherwise.
Keys(order, obj) ==
    LET InOrder(listed) ==
            IF Len(listed) = Cardinality(DOMAIN obj) THEN listed
            ELSE SelectSeq(TrapKeyOrder, LAMBDA k : k \in DOMAIN obj)
    IN  Only({InOrder(listed) :
                 listed \in {SelectSeq(order, LAMBDA k : k \in DOMAIN obj)}})

\* obj[key] ?? 0
Get(obj, key) == IF key \in DOMAIN obj THEN obj[key] ELSE 0

\* The sum of f over the keys in q.
SumOver(q, f) == SumSeq([i \in 1..Len(q) |-> f[q[i]]])

\* --------------------------------------------------------- DiscreteBelief

\* A faulty variant of update that keeps the prior when every weight is 0.
BeliefUpdateKeepsPrior(distribution, likelihood) ==
    LET Normalized(newDist, sum) ==
            IF sum > 0
            THEN [s \in DOMAIN newDist |-> FDiv(newDist[s], sum)] @@ <<>>
            ELSE distribution
        Weighted(newDist) ==
            Only({Normalized(newDist, sum) :
                     sum \in {SumOver(Keys(StateOrder, newDist), newDist)}})
    IN  Only({Weighted(newDist) :
                 newDist \in {[s \in DOMAIN distribution |->
                                  FMul(distribution[s], Get(likelihood, s))]
                              @@ <<>>}})

\* DiscreteBelief.update(likelihood): the posterior distribution.
BeliefUpdate(distribution, likelihood) ==
    LET Normalized(newDist, sum) ==
            IF sum > 0
            THEN [s \in DOMAIN newDist |-> FDiv(newDist[s], sum)] @@ <<>>
            ELSE newDist
        Weighted(newDist) ==
            Only({Normalized(newDist, sum) :
                     sum \in {SumOver(Keys(StateOrder, newDist), newDist)}})
    IN  Only({Weighted(newDist) :
                 newDist \in {[s \in DOMAIN distribution |->
                                  FMul(distribution[s], Get(likelihood, s))]
                              @@ <<>>}})

\* exportBelief(belief): state -> belief.probability(state).
exportBelief(distribution) ==
    [s \in DOMAIN distribution |-> Get(distribution, s)]

\* ---------------------------------------------------- observation models
\* An observation model is [learnable, concentrations, cached, matrix].  A
\* DiscreteObservation has learnable = FALSE and its matrix.  A
\* DirichletObservation has its concentrations and the cache _matrix:
\* cached says _matrix !== null, and matrix is its value (<<>> when null).

\* DirichletObservation.states / DiscreteObservation.states: the keys of
\* the first observation's row.
ObsStates(table) ==
    LET obs == Keys(ObsOrder, table)
    IN  IF obs = <<>> THEN <<>> ELSE Keys(StateOrder, table[obs[1]])

\* A faulty variant of normalize that divides by the sum over the states of
\* one observation.
ObsNormalizeByRow(concentrations) ==
    LET Divided(row, rowSum) ==
            [s \in DOMAIN row |->
                IF rowSum > 0 THEN FDiv(row[s], rowSum) ELSE 0] @@ <<>>
    IN  [o \in DOMAIN concentrations |->
            Only({Divided(concentrations[o], rowSum) :
                     rowSum \in {SumOver(Keys(StateOrder, concentrations[o]),
                                         concentrations[o])}})] @@ <<>>

\* DirichletObservation.normalize(): column-wise, per state.
ObsNormalize(concentrations) ==
    LET observations == Keys(ObsOrder, concentrations)
        Divided(colSums) ==
            [o \in DOMAIN concentrations |->
                [s \in DOMAIN colSums |->
                    IF colSums[s] > 0
                    THEN FDiv(concentrations[o][s], colSums[s])
                    ELSE 0] @@ <<>>] @@ <<>>
    IN  Only({Divided(colSums) :
                 colSums \in {[s \in DOMAIN concentrations[observations[1]] |->
                                 SumSeq([i \in 1..Len(observations) |->
                                     concentrations[observations[i]][s]])]
                              @@ <<>>}})

\* The value of the `matrix` property: the public field of a
\* DiscreteObservation, the lazily filled cache of a DirichletObservation.
ObsMatrix(om) ==
    IF om.learnable /\ ~om.cached
    THEN ObsNormalize(om.concentrations)
    ELSE om.matrix

\* The model after a read of `matrix`: the cache is filled.
ObsRead(om) == [om EXCEPT !.matrix = ObsMatrix(om), !.cached = TRUE]

\* getLikelihood(observation): this.matrix[observation] ?? {}
getLikelihood(om, observation) ==
    Only({IF observation \in DOMAIN m THEN m[observation] ELSE <<>> :
             m \in {ObsMatrix(om)}})

\* probability(observation, state): this.matrix[observation]?.[state] ?? 0
ObsProbability(m, observation, state) ==
    IF observation \in DOMAIN m THEN Get(m[observation], state) ELSE 0

\* A faulty variant of learn that adds the posterior to the row of every
\* observation.
ObsLearnEveryRow(om, observation, posteriorBelief) ==
    [threw |-> FALSE,
     model |-> [om EXCEPT
         !.concentrations =
             [o \in DOMAIN @ |->
                 [s \in DOMAIN @[o] |-> @[o][s] + Get(posteriorBelief, s)]],
         !.cached = FALSE,
         !.matrix = <<>>]]

\* DirichletObservation.learn(observation, posteriorBelief).  An observation
\* that is no key of the concentrations makes the first += throw a TypeError
\* before anything is written.
ObsLearn(om, observation, posteriorBelief) ==
    IF observation \notin DOMAIN om.concentrations
    THEN [threw |-> ObsStates(om.concentrations) # <<>>, model |-> om]
    ELSE [threw |-> FALSE,
          model |-> [om EXCEPT
              !.concentrations[observation] =
                  [s \in DOMAIN @ |-> @[s] + Get(posteriorBelief, s)],
              !.cached = FALSE,
              !.matrix = <<>>]]

\* --------------------------------------------------- transition models
\* A transition model is [learnable, concentrations, cached, matrix], as above,
\* indexed action -> state -> next state.

TransStates(table) ==
    LET acts == Keys(ActionOrder, table)
    IN  IF acts = <<>> THEN <<>> ELSE Keys(StateOrder, table[acts[1]])

\* DirichletTransition.normalize(): row-wise, per (action, state).
TransNormalize(concentrations) ==
    LET states == TransStates(concentrations)
        Divided(row, rowSum) ==
            [t \in DOMAIN row |->
                IF rowSum > 0 THEN FDiv(row[t], rowSum) ELSE 0] @@ <<>>
    IN  [a \in DOMAIN concentrations |->
            [s \in DOMAIN concentrations[a] |->
                Only({Divided(concentrations[a][s], rowSum) :
                         rowSum \in {SumOver(states, concentrations[a][s])}})]
            @@ <<>>] @@ <<>>

TransMatrix(tm) ==
    IF tm.learnable /\ ~tm.cached
    THEN TransNormalize(tm.concentrations)
    ELSE tm.matrix

TransRead(tm) == [tm EXCEPT !.matrix = TransMatrix(tm), !.cached = TRUE]

\* getTransition(state, action): this.matrix[action]?.[state] ?? {}
getTransition(m, state, action) ==
    IF action \in DOMAIN m /\ state \in DOMAIN m[action]
    THEN m[action][state]
    ELSE <<>>

\* predict(belief, action): P(s') = sum over s of P(s'|s,a) P(s).
predict(m, distribution, action) ==
    LET current == Keys(StateOrder, distribution)
    IN  [t \in DOMAIN m[Keys(ActionOrder, m)[1]] |->
            SumSeq([i \in 1..Len(current) |->
                FMul(Get(getTransition(m, current[i], action), t),
                     distribution[current[i]])])] @@ <<>>

\* A faulty variant of learn that adds the increments under every action.
TransLearnEveryAction(tm, action, priorBelief, posteriorBelief) ==
    [tm EXCEPT
        !.concentrations =
            [a \in DOMAIN @ |->
                [s \in DOMAIN @[a] |->
                    [t \in DOMAIN @[a][s] |->
                        @[a][s][t] + FMul(Get(priorBelief, s),
                                          Get(posteriorBelief, t))]]],
        !.cached = FALSE,
        !.matrix = <<>>]

\* DirichletTransition.learn(action, priorBelief, posteriorBelief).
TransLearn(tm, action, priorBelief, posteriorBelief) ==
    [tm EXCEPT
        !.concentrations[action] =
            [s \in DOMAIN @ |->
                [t \in DOMAIN @[s] |->
                    @[s][t] + FMul(Get(priorBelief, s),
                                   Get(posteriorBelief, t))]],
        !.cached = FALSE,
        !.matrix = <<>>]

\* ------------------------------------------- Dirichlet constructors
\* A Dirichlet model built on its own also carries kind ("observation" or
\* "transition") and shared: the top-level keys under which its
\* concentrations hold the very objects of the structure the constructor
\* was given, so that a write on either side shows on the other.

\* A faulty variant of the constructor that keeps the caller's rows.
DirichletObservationAliased(concentrations) ==
    [kind |-> "observation", learnable |-> TRUE,
     concentrations |-> concentrations, cached |-> FALSE, matrix |-> <<>>,
     shared |-> DOMAIN concentrations]

\* new DirichletObservation(concentrations): a new outer object and a
\* spread copy of every row.
DirichletObservationNew(concentrations) ==
    [kind |-> "observation", learnable |-> TRUE,
     concentrations |->
         [o \in DOMAIN concentrations |->
             [s \in DOMAIN concentrations[o] |-> concentrations[o][s]]],
     cached |-> FALSE, matrix |-> <<>>,
     shared |-> {}]

\* new DirichletTransition(concentrations): new objects at the action and
\* state levels and a spread copy of every row.
DirichletTransitionNew(concentrations) ==
    [kind |-> "transition", learnable |-> TRUE,
     concentrations |->
         [a \in DOMAIN concentrations |->
             [s \in DOMAIN concentrations[a] |->
                 [t \in DOMAIN concentrations[a][s] |->
                     concentrations[a][s][t]]]],
     cached |-> FALSE, matrix |-> <<>>,
     shared |-> {}]

\* The `matrix` property of either kind, its normalisation, and the model
\* after a read.
DirichletMatrix(d) ==
    IF d.kind = "observation" THEN ObsMatrix(d) ELSE TransMatrix(d)

DirichletNormalize(d) ==
    IF d.kind = "observation" THEN ObsNormalize(d.concentrations)
    ELSE TransNormalize(d.concentrations)

DirichletRead(d) ==
    IF d.kind = "observation" THEN ObsRead(d) ELSE TransRead(d)

\* ------------------------------------------------- expected free energy

\* computeAmbiguity(predictedBelief, observationModel)
computeAmbiguity(predicted, m) ==
    LET states == Keys(StateOrder, predicted)
        obs    == Keys(ObsOrder, m)
        term(s, o) ==
            LET stateProb == predicted[s]
                obsProb   == ObsProbability(m, o, s)
            IN  IF obsProb > 0 /\ stateProb > 0
                THEN FMul(FMul(stateProb, obsProb), MathLog(obsProb))
                ELSE 0
    IN  0 - SumSeq([i \in 1..Len(states) |->
                SumSeq([j \in 1..Len(obs) |-> term(states[i], obs[j])])])

\* The log-preference of an observation without an entry.
DefaultPreference == -10

\* A faulty variant of computeRisk that takes every observation as neutral.
computeRiskNeutral(predicted, m, preferences) == 0

\* computeRisk(predictedBelief, observationModel, preferences)
computeRisk(predicted, m, preferences) ==
    LET states == Keys(StateOrder, predicted)
        obs    == Keys(ObsOrder, m)
        term(o) ==
            LET expectedObsProb ==
                    SumSeq([i \in 1..Len(states) |->
                        FMul(ObsProbability(m, o, states[i]),
                             predicted[states[i]])])
                preferredLogProb ==
                    IF o \in DOMAIN preferences THEN preferences[o]
                    ELSE DefaultPreference * ONE
            IN  IF expectedObsProb > 0
                THEN FMul(expectedObsProb, preferredLogProb)
                ELSE 0
    IN  0 - SumSeq([j \in 1..Len(obs) |-> term(obs[j])])

\* createAgent's computeEFE: ambiguity + risk.
computeEFE(predicted, m, preferences) ==
    computeAmbiguity(predicted, m) + computeRisk(predicted, m, preferences)

\* ------------------------------------------------------- LinearAlgebra

\* LinearAlgebra.softmax(arr, beta)
softmax(arr, beta) ==
    LET Divided(exp, sum) == <<>> \o [i \in 1..Len(exp) |-> FDiv(exp[i], sum)]
        Summed(exp) == Only({Divided(exp, sum) : sum \in {SumSeq(exp)}})
        Shifted(cells, max) ==
            Only({Summed(exp) :
                     exp \in {<<>> \o [i \in 1..Len(cells) |->
                                 MathExp(FMul(beta, cells[i] - max))]}})
    IN  Only({Shifted(cells, MaxSeq(cells)) : cells \in {<<>> \o arr}})

\* LinearAlgebra.softmin(arr, beta)
softmin(arr, beta) == softmax([i \in 1..Len(arr) |-> 0 - arr[i]], beta)

\* LinearAlgebra.normalize(arr): x / sum, the divide unguarded; for the
\* non-negative arrays it is given, a zero sum makes every cell 0 / 0.
normalize(arr) ==
    LET Divided(cells, sum) ==
            <<>> \o [i \in 1..Len(cells) |->
                        IF sum = 0 THEN NaN ELSE FDiv(cells[i], sum)]
    IN  Only({Divided(cells, SumSeq(cells)) : cells \in {<<>> \o arr}})

\* ------------------------------------------------------------- Agent.act

\* A faulty variant of getPolicyHabit that gives an action without an entry
\* the weight 0.
RECURSIVE getPolicyHabitAbsentZero(_, _)
getPolicyHabitAbsentZero(habits, policy) ==
    IF DOMAIN habits = {} \/ policy = <<>> THEN ONE
    ELSE FMul(getPolicyHabitAbsentZero(habits,
                                       SubSeq(policy, 1, Len(policy) - 1)),
              IF policy[Len(policy)] \in DOMAIN habits
              THEN habits[policy[Len(policy)]] ELSE 0)

\* Agent.getPolicyHabit(policy): the product of the actions' habit weights.
RECURSIVE getPolicyHabit(_, _)
getPolicyHabit(habits, policy) ==
    IF DOMAIN habits = {} \/ policy = <<>> THEN ONE
    ELSE FMul(getPolicyHabit(habits, SubSeq(policy, 1, Len(policy) - 1)),
              IF policy[Len(policy)] \in DOMAIN habits
              THEN habits[policy[Len(policy)]] ELSE ONE)

\* The first loop of act: one beam per action.
InitialBeams(tm, om, preferences, distribution) ==
    LET actions == Keys(ActionOrder, tm)
        Beam(action, predicted) ==
            [policy |-> <<action>>,
             efe    |-> computeEFE(predicted, om, preferences),
             belief |-> predicted]
    IN  <<>> \o [i \in 1..Len(actions) |->
            Only({Beam(actions[i], predicted) :
                     predicted \in {predict(tm, distribution, actions[i])}})]

\* A faulty variant of ExpandBeams that extends action by action rather
\* than beam by beam.
ExpandBeamsActionMajor(tm, om, preferences, beams) ==
    IF beams = <<>> THEN <<>>
    ELSE LET actions == Keys(ActionOrder, tm)
             n       == Len(beams)
             Beam(beam, action, predicted) ==
                 [policy |-> Append(beam.policy, action),
                  efe    |-> beam.efe + computeEFE(predicted, om, preferences),
                  belief |-> predicted]
             Extended(beam, action) ==
                 Only({Beam(beam, action, predicted) :
                          predicted \in {predict(tm, beam.belief, action)}})
         IN  <<>> \o [k \in 1..(Len(actions) * n) |->
                 Extended(beams[((k - 1) % n) + 1],
                          actions[((k - 1) \div n) + 1])]

\* The body of one extension step: every beam extended by every action, in
\* beam order and then action order.
ExpandBeams(tm, om, preferences, beams) ==
    LET actions == Keys(ActionOrder, tm)
        n       == Len(actions)
        Beam(beam, action, predicted) ==
            [policy |-> Append(beam.policy, action),
             efe    |-> beam.efe + computeEFE(predicted, om, preferences),
             belief |-> predicted]
        Extended(beam, action) ==
            Only({Beam(beam, action, predicted) :
                     predicted \in {predict(tm, beam.belief, action)}})
    IN  <<>> \o [k \in 1..(Len(beams) * n) |->
            Extended(beams[((k - 1) \div n) + 1], actions[((k - 1) % n) + 1])]

\* nextBeams.sort((a, b) => a.efe - b.efe): ascending and stable.
RECURSIVE InsertBeam(_, _)
InsertBeam(sorted, b) ==
    IF sorted = <<>> THEN <<b>>
    ELSE IF b.efe < Head(sorted).efe THEN <<b>> \o sorted
    ELSE <<Head(sorted)>> \o InsertBeam(Tail(sorted), b)

RECURSIVE SortBeams(_)
SortBeams(beams) ==
    IF beams = <<>> THEN <<>>
    ELSE InsertBeam(SortBeams(SubSeq(beams, 1, Len(beams) - 1)),
                    beams[Len(beams)])

\* A faulty variant of the pruning that cuts the expanded set to the beam
\* width without sorting it.
PruneBeamsUnsorted(nextBeams, beamWidth) ==
    IF beamWidth > 0 /\ Len(nextBeams) > beamWidth
    THEN SubSeq(nextBeams, 1, beamWidth)
    ELSE nextBeams

\* The pruning at the end of one extension step.
PruneBeams(nextBeams, beamWidth) ==
    IF beamWidth > 0 /\ Len(nextBeams) > beamWidth
    THEN SubSeq(SortBeams(nextBeams), 1, beamWidth)
    ELSE nextBeams

\* A faulty variant of ExtendBeams that also prunes the set it ends with.
RECURSIVE ExtendBeamsPruningLast(_, _, _, _, _, _, _)
ExtendBeamsPruningLast(tm, om, preferences, beams, depth, planningHorizon, beamWidth) ==
    IF depth >= planningHorizon THEN PruneBeams(beams, beamWidth)
    ELSE Only({ExtendBeamsPruningLast(tm, om, preferences, pruned, depth + 1,
                                      planningHorizon, beamWidth) :
                  pruned \in {Only({PruneBeams(nextBeams, beamWidth) :
                      nextBeams \in {ExpandBeams(tm, om, preferences,
                                                 beams)}})}})

\* A faulty variant of ExtendBeams whose loop stops one step early.
RECURSIVE ExtendBeamsOneShort(_, _, _, _, _, _, _)
ExtendBeamsOneShort(tm, om, preferences, beams, depth, planningHorizon, beamWidth) ==
    IF depth + 1 >= planningHorizon THEN beams
    ELSE Only({ExtendBeamsOneShort(tm, om, preferences, pruned, depth + 1,
                                   planningHorizon, beamWidth) :
                  pruned \in {Only({PruneBeams(nextBeams, beamWidth) :
                      nextBeams \in {ExpandBeams(tm, om, preferences,
                                                 beams)}})}})

\* The extension loop: for (depth = 1; depth < planningHorizon; depth++).
RECURSIVE ExtendBeams(_, _, _, _, _, _, _)
ExtendBeams(tm, om, preferences, beams, depth, planningHorizon, beamWidth) ==
    IF depth >= planningHorizon THEN beams
    ELSE Only({ExtendBeams(tm, om, preferences, pruned, depth + 1,
                           planningHorizon, beamWidth) :
                  pruned \in {Only({PruneBeams(nextBeams, beamWidth) :
                      nextBeams \in {ExpandBeams(tm, om, preferences,
                                                 beams)}})}})

\* The selection probabilities of the candidate policies.
PolicyProbs(beams, precision, habits) ==
    LET Combined(policyProbs) ==
            IF DOMAIN habits # {}
            THEN normalize([i \in 1..Len(beams) |->
                     FMul(policyProbs[i],
                          getPolicyHabit(habits, beams[i].policy))])
            ELSE policyProbs
    IN  Only({Combined(policyProbs) :
                 policyProbs \in {softmin([i \in 1..Len(beams) |->
                                              beams[i].efe], precision)}})

\* A faulty variant of the loop of sampleIndex that compares
\* rand <= cumulative.
RECURSIVE sampleFromInclusive(_, _, _, _)
sampleFromInclusive(probs, u, i, cumulative) ==
    IF i > Len(probs) THEN Len(probs)
    ELSE LET c == IF cumulative = NaN \/ probs[i] = NaN THEN NaN
                  ELSE cumulative + probs[i]
         IN  IF c # NaN /\ DrawBelow(u, c + 1) THEN i
             ELSE sampleFromInclusive(probs, u, i + 1, c)

\* Agent.sampleIndex(probs), for the 32-bit value u of the draw: the first
\* index whose cumulative probability exceeds the draw, else the last.  A
\* NaN cumulative compares false with everything.
RECURSIVE sampleFrom(_, _, _, _)
sampleFrom(probs, u, i, cumulative) ==
    IF i > Len(probs) THEN Len(probs)
    ELSE LET c == IF cumulative = NaN \/ probs[i] = NaN THEN NaN
                  ELSE cumulative + probs[i]
         IN  IF c # NaN /\ DrawBelow(u, c) THEN i
             ELSE sampleFrom(probs, u, i + 1, c)

sampleIndex(probs, u) == sampleFrom(probs, u, 1, 0)

\* ----------------------------------------------------------- the Agent
\* Belief objects live in a heap: heap[address] is the distribution of the
\* DiscreteBelief at that address, and a reference is an address (0: null).
\* An agent is the record of its fields, with the heap it allocates in and
\* the models and preferences its callbacks close over:
\*   belief, previousBelief        references
\*   previousAction                an action or NULL
\*   random                        the state of its Random
\*   planningHorizon, precision, habits, beamWidth
\*   transitionModel, observationModel, preferences
\*   afterObserve                  "factory" (createAgent's callback),
\*                                 "custom" (a caller's own) or NULL

\* belief.copy(): a new object with the same distribution.
CopyBelief(heap, ref) == Append(heap, heap[ref])

\* A faulty variant of createAgentRandom that ignores the configured seed.
createAgentRandomClock(seed, now) == RandomNew(now)

\* The Random of createAgent: seeded when a seed is configured, else seeded
\* with Date.now() (its low 32 bits).  config.seed is <<n>> when given and
\* <<>> when undefined.
createAgentRandom(seed, now) ==
    IF seed # <<>> THEN RandomNew(seed[1]) ELSE RandomNew(now)

\* A faulty variant of the Agent constructor that clamps the precision to
\* at least 1.
AgentNewPrecisionAtLeastOne(heap, belief, transitionModel, observationModel, preferences, random, planningHorizon, precision, habits, beamWidth, afterObserve) ==
    [heap             |-> CopyBelief(heap, belief),
     belief           |-> Len(heap) + 1,
     previousBelief   |-> 0,
     previousAction   |-> NULL,
     random           |-> random,
     planningHorizon  |-> Max2(1, planningHorizon \div ONE),
     precision        |-> Max2(ONE, precision),
     habits           |-> habits,
     beamWidth        |-> Max2(0, beamWidth \div ONE),
     transitionModel  |-> transitionModel,
     observationModel |-> observationModel,
     preferences      |-> preferences,
     afterObserve     |-> afterObserve]

\* new Agent(belief, ...): the belief is copied, the numbers are clamped.
AgentNew(heap, belief, transitionModel, observationModel, preferences, random, planningHorizon, precision, habits, beamWidth, afterObserve) ==
    [heap             |-> CopyBelief(heap, belief),
     belief           |-> Len(heap) + 1,
     previousBelief   |-> 0,
     previousAction   |-> NULL,
     random           |-> random,
     planningHorizon  |-> Max2(1, planningHorizon \div ONE),
     precision        |-> Max2(0, precision),
     habits           |-> habits,
     beamWidth        |-> Max2(0, beamWidth \div ONE),
     transitionModel  |-> transitionModel,
     observationModel |-> observationModel,
     preferences      |-> preferences,
     afterObserve     |-> afterObserve]

\* The agent's current distribution.
BeliefOf(w) == w.heap[w.belief]

\* get belief(): a copy; the reference returned is the new object's.
beliefGetter(w) == [w EXCEPT !.heap = CopyBelief(w.heap, w.belief)]

\* A faulty variant of observe that starts again from the uniform
\* distribution when the belief assigns 0 to every state.
observeRestarting(w, observation) ==
    LET Prior(d) ==
            IF \A s \in DOMAIN d : d[s] = 0
            THEN [s \in DOMAIN d |-> ONE \div Cardinality(DOMAIN d)] @@ <<>>
            ELSE d
        Updated(a) ==
            [a EXCEPT
                !.heap = Append(@, BeliefUpdate(Prior(BeliefOf(a)),
                             getLikelihood(a.observationModel, observation))),
                !.belief = Len(a.heap) + 1,
                !.observationModel = ObsRead(@)]
    IN  Only({Updated(a) : a \in {w}})

\* A faulty variant of observe that also lets a learnable observation model
\* learn from the posterior.
observeLearning(w, observation) ==
    LET Learnt(om, posterior) ==
            IF om.learnable /\ observation \in DOMAIN om.concentrations
            THEN ObsLearn(om, observation, posterior).model
            ELSE ObsRead(om)
        Updated(a, posterior) ==
            [a EXCEPT
                !.heap = Append(@, posterior),
                !.belief = Len(a.heap) + 1,
                !.observationModel = Learnt(@, posterior)]
    IN  Only({Updated(w, posterior) :
                 posterior \in {BeliefUpdate(BeliefOf(w),
                                    getLikelihood(w.observationModel,
                                                  observation))}})

\* Agent.observe(observation): the belief is replaced by the posterior, a
\* new object; reading the likelihood fills the observation model's cache.
observe(w, observation) ==
    LET Updated(a) ==
            [a EXCEPT
                !.heap = Append(@, BeliefUpdate(BeliefOf(a),
                             getLikelihood(a.observationModel, observation))),
                !.belief = Len(a.heap) + 1,
                !.observationModel = ObsRead(@)]
    IN  Only({Updated(a) : a \in {w}})

\* A faulty variant of resetBelief that also forgets the recorded previous
\* action and belief.
resetBeliefForgetting(w, belief) ==
    [w EXCEPT !.heap = CopyBelief(w.heap, belief),
              !.belief = Len(w.heap) + 1,
              !.previousAction = NULL,
              !.previousBelief = 0]

\* Agent.resetBelief(belief): the belief is replaced by a copy.
resetBelief(w, belief) ==
    [w EXCEPT !.heap = CopyBelief(w.heap, belief),
              !.belief = Len(w.heap) + 1]

\* A faulty variant of act that records the action it returns and the
\* belief it planned from as "previous", as step() does.
actRecordingAction(w) ==
    LET Result(a, tm, om, beams, probs, draw, idx) ==
            [action      |-> beams[idx].policy[1],
             policies    |-> <<>> \o [i \in 1..Len(beams) |-> beams[i].policy],
             policyEFEs  |-> <<>> \o [i \in 1..Len(beams) |-> beams[i].efe],
             policyProbs |-> probs,
             idx         |-> idx,
             transitionRead  |-> tm,
             observationRead |-> om,
             agent       |-> [a EXCEPT
                 !.random = draw.state,
                 !.previousAction = beams[idx].policy[1],
                 !.previousBelief = a.belief,
                 !.transitionModel = TransRead(@),
                 !.observationModel = ObsRead(@)]]
        Sampled(a, tm, om, beams, probs, draw) ==
            Only({Result(a, tm, om, beams, probs, draw, idx) :
                     idx \in {sampleIndex(probs, draw.u)}})
        Searched(a, tm, om, beams) ==
            Only({Sampled(a, tm, om, beams, probs, draw) :
                     probs \in {PolicyProbs(beams, a.precision, a.habits)},
                     draw \in {RandomNext(a.random)}})
        Planned(a, tm, om) ==
            Only({Searched(a, tm, om, beams) :
                     beams \in {ExtendBeams(tm, om, a.preferences,
                                    InitialBeams(tm, om, a.preferences,
                                                 BeliefOf(a)),
                                    1, a.planningHorizon, a.beamWidth)}})
        Read(a) ==
            Only({Planned(a, tm, om) :
                     tm \in {TransMatrix(a.transitionModel)},
                     om \in {ObsMatrix(a.observationModel)}})
    IN  Only({Read(a) : a \in {w}})

\* Agent.act(): the chosen action, the search's candidates and their
\* probabilities, and the agent afterwards: one draw taken, the caches of
\* both models filled by the reads of the search.
act(w) ==
    LET Result(a, tm, om, beams, probs, draw, idx) ==
            [action      |-> beams[idx].policy[1],
             policies    |-> <<>> \o [i \in 1..Len(beams) |-> beams[i].policy],
             policyEFEs  |-> <<>> \o [i \in 1..Len(beams) |-> beams[i].efe],
             policyProbs |-> probs,
             idx         |-> idx,
             transitionRead  |-> tm,
             observationRead |-> om,
             agent       |-> [a EXCEPT
                 !.random = draw.state,
                 !.transitionModel = TransRead(@),
                 !.observationModel = ObsRead(@)]]
        Sampled(a, tm, om, beams, probs, draw) ==
            Only({Result(a, tm, om, beams, probs, draw, idx) :
                     idx \in {sampleIndex(probs, draw.u)}})
        Searched(a, tm, om, beams) ==
            Only({Sampled(a, tm, om, beams, probs, draw) :
                     probs \in {PolicyProbs(beams, a.precision, a.habits)},
                     draw \in {RandomNext(a.random)}})
        Planned(a, tm, om) ==
            Only({Searched(a, tm, om, beams) :
                     beams \in {ExtendBeams(tm, om, a.preferences,
                                    InitialBeams(tm, om, a.preferences,
                                                 BeliefOf(a)),
                                    1, a.planningHorizon, a.beamWidth)}})
        Read(a) ==
            Only({Planned(a, tm, om) :
                     tm \in {TransMatrix(a.transitionModel)},
                     om \in {ObsMatrix(a.observationModel)}})
    IN  Only({Read(a) : a \in {w}})

\* The belief step() hands to the callback: this._belief.
CallbackBelief(w) == w.belief

\* A faulty variant of afterObserve that learns the transition from the
\* current belief on both sides, and does so on the first step too.
afterObserveNoPrevious(w, observation, belief, previousAction, previousBelief) ==
    LET action == IF previousAction = NULL THEN ActionOrder[1]
                  ELSE previousAction
        Learnt(a, posteriorDist, learnt) ==
            LET doTrans == a.transitionModel.learnable /\ ~learnt.threw
            IN  [threw |-> learnt.threw,
                 calls |-> (IF a.observationModel.learnable
                            THEN <<[model |-> "observation",
                                    observation |-> observation,
                                    posterior |-> posteriorDist]>>
                            ELSE <<>>)
                           \o (IF doTrans
                               THEN <<[model |-> "transition",
                                       action |-> action,
                                       prior |-> posteriorDist,
                                       posterior |-> posteriorDist]>>
                               ELSE <<>>),
                 observationModel |-> learnt.model,
                 transitionModel  |->
                     IF doTrans
                     THEN TransLearn(a.transitionModel, action, posteriorDist,
                                     posteriorDist)
                     ELSE a.transitionModel]
        Exported(a, posteriorDist) ==
            Only({Learnt(a, posteriorDist, learnt) :
                     learnt \in {IF a.observationModel.learnable
                                 THEN ObsLearn(a.observationModel, observation,
                                               posteriorDist)
                                 ELSE [threw |-> FALSE,
                                       model |-> a.observationModel]}})
    IN  Only({Exported(a, exportBelief(a.heap[belief])) : a \in {w}})

\* createAgent's afterObserve(observation, belief, previousAction,
\* previousBelief): the learn calls it makes, in order, and the models
\* afterwards.  A fixed model has no learn.  threw: learn raised.
afterObserve(w, observation, belief, previousAction, previousBelief) ==
    LET Learnt(a, posteriorDist, learnt) ==
            LET doTrans == /\ previousAction # NULL
                           /\ previousBelief # 0
                           /\ a.transitionModel.learnable
                           /\ ~learnt.threw
                obsCall == IF a.observationModel.learnable
                           THEN <<[model |-> "observation",
                                   observation |-> observation,
                                   posterior |-> posteriorDist]>>
                           ELSE <<>>
            IN  IF doTrans
                THEN Only({[threw |-> FALSE,
                            calls |-> obsCall \o
                                <<[model |-> "transition",
                                   action |-> previousAction,
                                   prior |-> prevDist,
                                   posterior |-> posteriorDist]>>,
                            observationModel |-> learnt.model,
                            transitionModel  |->
                                TransLearn(a.transitionModel, previousAction,
                                           prevDist, posteriorDist)] :
                              prevDist \in
                                  {exportBelief(a.heap[previousBelief])}})
                ELSE [threw |-> learnt.threw,
                      calls |-> obsCall,
                      observationModel |-> learnt.model,
                      transitionModel  |-> a.transitionModel]
        Exported(a, posteriorDist) ==
            Only({Learnt(a, posteriorDist, learnt) :
                     learnt \in {IF a.observationModel.learnable
                                 THEN ObsLearn(a.observationModel, observation,
                                               posteriorDist)
                                 ELSE [threw |-> FALSE,
                                       model |-> a.observationModel]}})
    IN  Only({Only({Exported(a, posteriorDist) :
                       posteriorDist \in {exportBelief(a.heap[belief])}}) :
                 a \in {w}})

\* The callback of step(): createAgent's, a caller's own (which learns
\* nothing here), or none.
RunCallback(w, observation) ==
    IF w.afterObserve = "factory"
    THEN afterObserve(w, observation, CallbackBelief(w), w.previousAction,
                      w.previousBelief)
    ELSE [threw |-> FALSE, calls |-> <<>>,
          observationModel |-> w.observationModel,
          transitionModel |-> w.transitionModel]

\* A faulty variant of step that searches for a policy before the callback
\* has learnt.
stepActsBeforeLearning(w, observation) ==
    LET Done(w1, a, cb) ==
            IF cb.threw
            THEN [threw |-> TRUE, action |-> NULL, learnCalls |-> cb.calls,
                  callbackBelief |-> CallbackBelief(w1),
                  updated |-> BeliefOf(w1), planned |-> <<>>, agent |-> w1]
            ELSE [threw |-> FALSE, action |-> a.action,
                  learnCalls |-> cb.calls,
                  callbackBelief |-> CallbackBelief(w1),
                  updated |-> BeliefOf(w1),
                  planned |-> [observation |-> a.observationRead,
                               transition |-> a.transitionRead],
                  agent |-> [a.agent EXCEPT
                      !.observationModel = cb.observationModel,
                      !.transitionModel = cb.transitionModel,
                      !.previousBelief = a.agent.belief,
                      !.previousAction = a.action]]
        Acted(w1, a) ==
            Only({Done(w1, a, cb) : cb \in {RunCallback(a.agent, observation)}})
        Observed(w1) == Only({Acted(w1, a) : a \in {act(w1)}})
    IN  Only({Observed(w1) : w1 \in {observe(w, observation)}})

\* A faulty variant of step that draws its action before the observation
\* is taken in.
stepActsBeforeObserving(w, observation) ==
    LET Done(a, w1, cb) ==
            [threw |-> cb.threw,
             action |-> IF cb.threw THEN NULL ELSE a.action,
             learnCalls |-> cb.calls,
             callbackBelief |-> CallbackBelief(w1),
             updated |-> BeliefOf(w1),
             planned |-> IF cb.threw THEN <<>>
                         ELSE [observation |-> a.observationRead,
                               transition |-> a.transitionRead],
             agent |-> IF cb.threw THEN w1
                       ELSE [w1 EXCEPT
                           !.observationModel = cb.observationModel,
                           !.transitionModel = cb.transitionModel,
                           !.previousBelief = w1.belief,
                           !.previousAction = a.action]]
        Observed(a, w1) ==
            Only({Done(a, w1, cb) : cb \in {RunCallback(w1, observation)}})
        Acted(a) ==
            Only({Observed(a, w1) : w1 \in {observe(a.agent, observation)}})
    IN  Only({Acted(a) : a \in {act(w)}})

\* A faulty variant of step that puts the belief back when the callback
\* raises.
stepRestoringBelief(w, observation) ==
    LET Done(w1, cb, a) ==
            [threw |-> FALSE, action |-> a.action, learnCalls |-> cb.calls,
             callbackBelief |-> CallbackBelief(w1),
             updated |-> BeliefOf(w1),
             planned |-> [observation |-> a.observationRead,
                          transition |-> a.transitionRead],
             agent |-> [a.agent EXCEPT
                 !.previousBelief = a.agent.belief,
                 !.previousAction = a.action]]
        Learnt(w1, cb) ==
            IF cb.threw
            THEN [threw |-> TRUE, action |-> NULL, learnCalls |-> cb.calls,
                  callbackBelief |-> CallbackBelief(w1),
                  updated |-> BeliefOf(w),
                  planned |-> <<>>,
                  agent |-> [w1 EXCEPT !.belief = w.belief]]
            ELSE Only({Done(w1, cb, a) :
                          a \in {act([w1 EXCEPT
                              !.observationModel = cb.observationModel,
                              !.transitionModel = cb.transitionModel])}})
        Observed(w1) ==
            Only({Learnt(w1, cb) : cb \in {RunCallback(w1, observation)}})
    IN  Only({Observed(w1) : w1 \in {observe(w, observation)}})

\* Agent.step(observation): observe, the callback, act, then the action and
\* the belief object are recorded as "previous".  When the callback raises,
\* step ends there and returns nothing.
step(w, observation) ==
    LET Done(w1, cb, a) ==
            [threw |-> FALSE, action |-> a.action, learnCalls |-> cb.calls,
             callbackBelief |-> CallbackBelief(w1),
             updated |-> BeliefOf(w1),
             planned |-> [observation |-> a.observationRead,
                          transition |-> a.transitionRead],
             agent |-> [a.agent EXCEPT
                 !.previousBelief = a.agent.belief,
                 !.previousAction = a.action]]
        Learnt(w1, cb) ==
            IF cb.threw
            THEN [threw |-> TRUE, action |-> NULL, learnCalls |-> cb.calls,
                  callbackBelief |-> CallbackBelief(w1),
                  updated |-> BeliefOf(w1),
                  planned |-> <<>>,
                  agent |-> w1]
            ELSE Only({Done(w1, cb, a) :
                          a \in {act([w1 EXCEPT
                              !.observationModel = cb.observationModel,
                              !.transitionModel = cb.transitionModel])}})
        Observed(w1) ==
            Only({Learnt(w1, cb) : cb \in {RunCallback(w1, observation)}})
    IN  Only({Observed(w1) : w1 \in {observe(w, observation)}})

\* createAgent(config), at a clock reading `now`: the Random, the callback
\* and the defaults of the factory (the model's configs give every field).
createAgent(config, now) ==
    AgentNew(<<config.belief>>, 1, config.transitionModel,
             config.observationModel, config.preferences,
             createAgentRandom(config.seed, now), config.planningHorizon,
             config.precision, config.habits, config.beamWidth, "factory")

\* ------------------------------------------------------------- inputs

\* tests/constants.ts
SEED_A == 42
SEED_B == 1000

\* The number of calls made in one run.
MaxCalls == 3

\* Readings of Date.now() (their low 32 bits).
ClockInputs == {1111, 1337}

\* Beliefs a caller passes in: uniform, and certain of "safe".
BeliefInputs ==
    {[safe |-> ONE \div 2, danger |-> ONE \div 2],
     [safe |-> ONE, danger |-> 0]}

\* The Dirichlet models of the learning tests: a diagnostic observation
\* model with counts 9 and 1, transitions with all counts 5.
ObsConcentrations ==
    [see_safe   |-> [safe |-> 9 * ONE, danger |-> 1 * ONE],
     see_danger |-> [safe |-> 1 * ONE, danger |-> 9 * ONE]]

TransConcentrations ==
    [flee |-> [safe   |-> [safe |-> 5 * ONE, danger |-> 5 * ONE],
               danger |-> [safe |-> 5 * ONE, danger |-> 5 * ONE]],
     stay |-> [safe   |-> [safe |-> 5 * ONE, danger |-> 5 * ONE],
               danger |-> [safe |-> 5 * ONE, danger |-> 5 * ONE]]]

\* The fixed models of the test "non-learnable models are not affected".
ObsMatrixFixed ==
    [see_safe   |-> [safe |-> (9 * ONE) \div 10, danger |-> ONE \div 10],
     see_danger |-> [safe |-> ONE \div 10, danger |-> (9 * ONE) \div 10]]

TransMatrixFixed ==
    [flee |-> [safe   |-> [safe |-> (9 * ONE) \div 10, danger |-> ONE \div 10],
               danger |-> [safe |-> ONE \div 2, danger |-> ONE \div 2]],
     stay |-> [safe   |-> [safe |-> (9 * ONE) \div 10, danger |-> ONE \div 10],
               danger |-> [safe |-> ONE \div 10,
                           danger |-> (9 * ONE) \div 10]]]

\* preferences: { see_safe: 0, see_danger: -5 }
PreferencesFixture == [see_safe |-> 0, see_danger |-> (0 - 5) * ONE]

\* new DiscreteObservation(matrix), new DiscreteTransition(matrix)
DiscreteModel(matrix) ==
    [learnable |-> FALSE, concentrations |-> <<>>,
     cached |-> TRUE, matrix |-> matrix]

\* The model pairs of a configuration: learnable or fixed.
ModelInputs ==
    {[transition  |-> DirichletTransitionNew(TransConcentrations),
      observation |-> DirichletObservationNew(ObsConcentrations)],
     [transition  |-> DiscreteModel(TransMatrixFixed),
      observation |-> DiscreteModel(ObsMatrixFixed)]}

\* An AgentConfig: planning horizon 2, precision 1, no habits, no beam limit.
Config(belief, m, seed) ==
    [belief |-> belief, transitionModel |-> m.transition,
     observationModel |-> m.observation, preferences |-> PreferencesFixture,
     seed |-> seed, planningHorizon |-> 2 * ONE, precision |-> ONE,
     habits |-> <<>>, beamWidth |-> 0]

\* The agents one run may build: createAgent with learnable or with fixed
\* models, or the fixed models under a caller's own callback, which keeps
\* the belief it is given.
AgentInputs ==
    {createAgent(Config(b, m, <<SEED_A>>), 0) :
        b \in BeliefInputs, m \in ModelInputs}
    \cup
    {[createAgent(Config(b, m, <<SEED_A>>), 0)
          EXCEPT !.afterObserve = "custom"] :
        b \in BeliefInputs, m \in {x \in ModelInputs : ~x.observation.learnable}}

\* -------------------------------------------------------------- state

VARIABLES
    agent,          \* the agent, with the heap of belief objects
    callerBelief,   \* the object the caller last passed in (constructor, reset)
    gotBelief,      \* the object the belief getter last returned (0: none)
    callbackBelief, \* the object last passed to the callback (0: none)
    lastCall,       \* the last call made on the agent and what it did
    chosen,         \* the action the last completed step() returned and the
                    \* distribution the agent held when it was chosen
    ncalls,         \* the number of calls made
    other,          \* a second agent, built from the same configuration
    dirichlet,      \* a Dirichlet model on its own
    original,       \* the concentration object its constructor was given
    dcall,          \* the last call made on the Dirichlet model
    bcall           \* the last DiscreteBelief.update: prior, likelihood, result

vars == <<agent, callerBelief, gotBelief, callbackBelief, lastCall, chosen,
          ncalls, other, dirichlet, original, dcall, bcall>>

handles == <<callerBelief, gotBelief, callbackBelief>>

dirichletVars == <<dirichlet, original, dcall>>

\* The value of a variable a specification does not use.
Idle == <<>>

NoCall ==
    [op |-> "new", arg |-> NULL, returned |-> NULL, threw |-> FALSE,
     learnCalls |-> <<>>, planned |-> <<>>]

\* ------------------------------------------------------ one agent

Init ==
    /\ agent \in AgentInputs
    /\ callerBelief = 1
    /\ gotBelief = 0
    /\ callbackBelief = 0
    /\ lastCall = NoCall
    /\ chosen = [action |-> NULL, belief |-> <<>>]
    /\ ncalls = 0
    /\ other = Idle
    /\ dirichlet = Idle
    /\ original = Idle
    /\ dcall = Idle
    /\ bcall = Idle

\* agent.observe(o)
Observe(o) ==
    /\ ncalls < MaxCalls
    /\ agent' = observe(agent, o)
    /\ lastCall' = [NoCall EXCEPT !.op = "observe", !.arg = o]
    /\ ncalls' = ncalls + 1
    /\ UNCHANGED <<handles, chosen, other, dirichletVars, bcall>>

\* agent.act()
Act ==
    /\ ncalls < MaxCalls
    /\ \E a \in {act(agent)} :
           /\ agent' = a.agent
           /\ lastCall' = [NoCall EXCEPT !.op = "act", !.returned = a.action]
    /\ ncalls' = ncalls + 1
    /\ UNCHANGED <<handles, chosen, other, dirichletVars, bcall>>

\* agent.step(o)
Step(o) ==
    /\ ncalls < MaxCalls
    /\ \E r \in {step(agent, o)} :
           /\ agent' = r.agent
           /\ lastCall' = [op |-> "step", arg |-> o, returned |-> r.action,
                           threw |-> r.threw, learnCalls |-> r.learnCalls,
                           planned |-> r.planned]
           /\ callbackBelief' = IF agent.afterObserve = NULL
                                THEN callbackBelief ELSE r.callbackBelief
           /\ chosen' = IF r.threw THEN chosen
                        ELSE [action |-> r.action, belief |-> r.updated]
    /\ ncalls' = ncalls + 1
    /\ UNCHANGED <<callerBelief, gotBelief, other, dirichletVars, bcall>>

\* agent.resetBelief(new DiscreteBelief(d))
ResetBelief(d) ==
    /\ ncalls < MaxCalls
    /\ LET heap1 == Append(agent.heap, d)
       IN  /\ agent' = resetBelief([agent EXCEPT !.heap = heap1], Len(heap1))
           /\ callerBelief' = Len(heap1)
    /\ lastCall' = [NoCall EXCEPT !.op = "resetBelief"]
    /\ ncalls' = ncalls + 1
    /\ UNCHANGED <<gotBelief, callbackBelief, chosen, other, dirichletVars,
                   bcall>>

\* agent.belief
GetBelief ==
    /\ ncalls < MaxCalls
    /\ agent' = beliefGetter(agent)
    /\ gotBelief' = Len(agent.heap) + 1
    /\ lastCall' = [NoCall EXCEPT !.op = "belief"]
    /\ ncalls' = ncalls + 1
    /\ UNCHANGED <<callerBelief, callbackBelief, chosen, other, dirichletVars,
                   bcall>>

\* The belief objects code outside the agent holds and may write to: the
\* ones it passed in, the ones the getter returned, and the one a caller's
\* own callback was given (createAgent's callback keeps none).
HeldBeliefs ==
    ({callerBelief, gotBelief}
        \cup (IF agent.afterObserve = "custom" THEN {callbackBelief} ELSE {}))
    \ {0}

\* Code outside the agent writes to a belief object it holds.
MutateHeld(ref, d) ==
    /\ ncalls < MaxCalls
    /\ ref \in HeldBeliefs
    /\ agent.heap[ref] # d
    /\ agent' = [agent EXCEPT !.heap[ref] = d]
    /\ lastCall' = [NoCall EXCEPT !.op = "mutate"]
    /\ ncalls' = ncalls + 1
    /\ UNCHANGED <<handles, chosen, other, dirichletVars, bcall>>

Next ==
    \/ \E o \in Observations \cup {UnknownObs} : Observe(o)
    \/ Act
    \/ \E o \in Observations \cup {UnknownObs} : Step(o)
    \/ \E d \in BeliefInputs : ResetBelief(d)
    \/ GetBelief
    \/ \E ref \in 1..Len(agent.heap) :
          MutateHeld(ref, [safe |-> 0, danger |-> ONE])

Spec == Init /\ [][Next]_vars

\* The transition-model learn calls among the learn calls of a step.
TransitionLearnCalls(calls) ==
    SelectSeq(calls, LAMBDA c : c.model = "transition")

\* A step() of a createAgent agent has just returned.
StepReturned ==
    /\ lastCall'.op = "step"
    /\ ncalls' = ncalls + 1
    /\ ~lastCall'.threw
    /\ agent.afterObserve = "factory"

\* C2: with a learnable transition model, the first step() that returns
\* makes no transition learn call, and every later one makes exactly one,
\* with the action the previous step returned, the distribution the agent
\* held when that action was chosen, and the distribution after this step's
\* observation update.
TransitionLearningUsesPreviousStep ==
    [][(StepReturned /\ agent.transitionModel.learnable)
       => TransitionLearnCalls(lastCall'.learnCalls) =
              IF chosen.action = NULL THEN <<>>
              ELSE <<[model     |-> "transition",
                      action    |-> chosen.action,
                      prior     |-> chosen.belief,
                      posterior |-> BeliefOf(agent')]>>]_vars

\* A later step has made its one transition learn call, and the prior and
\* the posterior it passed differ.
LaterStepLearnedTransition ==
    /\ lastCall.op = "step"
    /\ ~lastCall.threw
    /\ Len(TransitionLearnCalls(lastCall.learnCalls)) = 1
    /\ LET c == TransitionLearnCalls(lastCall.learnCalls)[1]
       IN  c.prior # c.posterior /\ c.posterior = BeliefOf(agent)

\* C3: step(o) updates the belief with the observation model as it was
\* before the step, then adds that posterior to the counts of o, then
\* searches with the matrices of the incremented counts.
StepPhasesInOrder ==
    [][(StepReturned /\ agent.observationModel.learnable)
       => LET o == lastCall'.arg
              posterior ==
                  BeliefUpdate(BeliefOf(agent),
                               getLikelihood(agent.observationModel, o))
          IN  /\ BeliefOf(agent') = posterior
              /\ \A s \in States :
                     agent'.observationModel.concentrations[o][s] =
                         agent.observationModel.concentrations[o][s]
                             + posterior[s]
              /\ lastCall'.planned =
                     [observation |->
                          ObsNormalize(agent'.observationModel.concentrations),
                      transition |->
                          TransNormalize(
                              agent'.transitionModel.concentrations)]]_vars

\* A step has learnt and planned, and the observation matrix it planned
\* with is not the one the belief update of that step could have read.
StepPlannedWithLearntModel ==
    /\ lastCall.op = "step"
    /\ ~lastCall.threw
    /\ agent.observationModel.learnable
    /\ lastCall.planned.observation # ObsNormalize(ObsConcentrations)
    /\ lastCall.planned.observation =
           ObsNormalize(agent.observationModel.concentrations)

\* C5: no belief object that code outside the agent has passed in, received
\* from the getter or been given in the callback is the agent's current
\* belief object.
LiveBeliefNeverHandedOut ==
    agent.belief \notin {callerBelief, gotBelief, callbackBelief}

\* C5, the consequence: a write to a belief object held outside the agent
\* never changes what the agent believes.
MutationNeverReachesAgent ==
    [][lastCall'.op = "mutate" => BeliefOf(agent') = BeliefOf(agent)]_vars

\* C5, the part that holds: the constructor, resetBelief and the getter
\* hand over copies.
CopiesAtConstructorResetAndGetter ==
    agent.belief \notin {callerBelief, gotBelief}

\* The getter and resetBelief have both been used, and a held object has
\* been written to.
CopiesWereMutated ==
    /\ gotBelief # 0
    /\ callerBelief # 1
    /\ lastCall.op = "mutate"

\* ------------------------------------------------------ two agents
\* Two agents built by createAgent from one configuration, each with model
\* instances of its own, at clock readings of their own, and driven by the
\* same calls.  other = [agent, returned, seed]: the second agent, what its
\* last call returned, and the seed of the configuration.

PairInit ==
    /\ \E b \in BeliefInputs, m \in ModelInputs, now1, now2 \in ClockInputs,
          seed \in {<<SEED_A>>, <<SEED_B>>, <<>>} :
           /\ agent = createAgent(Config(b, m, seed), now1)
           /\ other = [agent    |-> createAgent(Config(b, m, seed), now2),
                       returned |-> NULL,
                       seed     |-> seed]
    /\ callerBelief = 0
    /\ gotBelief = 0
    /\ callbackBelief = 0
    /\ lastCall = NoCall
    /\ chosen = Idle
    /\ ncalls = 0
    /\ dirichlet = Idle
    /\ original = Idle
    /\ dcall = Idle
    /\ bcall = Idle

\* observe(o) on both agents.
PairObserve(o) ==
    /\ ncalls < MaxCalls
    /\ agent' = observe(agent, o)
    /\ other' = [other EXCEPT !.agent = observe(@, o), !.returned = NULL]
    /\ lastCall' = [NoCall EXCEPT !.op = "observe", !.arg = o]
    /\ ncalls' = ncalls + 1
    /\ UNCHANGED <<handles, chosen, dirichletVars, bcall>>

\* act() on both agents.
PairAct ==
    /\ ncalls < MaxCalls
    /\ \E a1 \in {act(agent)}, a2 \in {act(other.agent)} :
           /\ agent' = a1.agent
           /\ other' = [other EXCEPT !.agent = a2.agent,
                                     !.returned = a2.action]
           /\ lastCall' = [NoCall EXCEPT !.op = "act",
                                         !.returned = a1.action]
    /\ ncalls' = ncalls + 1
    /\ UNCHANGED <<handles, chosen, dirichletVars, bcall>>

\* step(o) on both agents.
PairStep(o) ==
    /\ ncalls < MaxCalls
    /\ \E r1 \in {step(agent, o)}, r2 \in {step(other.agent, o)} :
           /\ agent' = r1.agent
           /\ other' = [other EXCEPT !.agent = r2.agent,
                                     !.returned = r2.action]
           /\ lastCall' = [op |-> "step", arg |-> o, returned |-> r1.action,
                           threw |-> r1.threw, learnCalls |-> r1.learnCalls,
                           planned |-> r1.planned]
    /\ ncalls' = ncalls + 1
    /\ UNCHANGED <<handles, chosen, dirichletVars, bcall>>

\* With fixed models: step(o) on the first agent, observe(o) and then act()
\* on the second.
SplitStep(o) ==
    /\ ncalls < MaxCalls
    /\ ~agent.observationModel.learnable
    /\ ~agent.transitionModel.learnable
    /\ \E r1 \in {step(agent, o)}, a2 \in {act(observe(other.agent, o))} :
           /\ agent' = r1.agent
           /\ other' = [other EXCEPT !.agent = a2.agent,
                                     !.returned = a2.action]
           /\ lastCall' = [op |-> "split", arg |-> o, returned |-> r1.action,
                           threw |-> r1.threw, learnCalls |-> r1.learnCalls,
                           planned |-> r1.planned]
    /\ ncalls' = ncalls + 1
    /\ UNCHANGED <<handles, chosen, dirichletVars, bcall>>

PairNext ==
    \/ \E o \in Observations : PairObserve(o)
    \/ PairAct
    \/ \E o \in Observations : PairStep(o)
    \/ \E o \in Observations : SplitStep(o)

SpecPair == PairInit /\ [][PairNext]_vars

\* C1: two agents built from one configuration with a seed, after the same
\* calls, have returned the same action from the last call and hold the
\* same belief.
SameSeedSameBehaviour ==
    other.seed # <<>>
    => /\ lastCall.returned = other.returned
       /\ BeliefOf(agent) = BeliefOf(other.agent)

\* Two seeded agents with learnable models, built at different clock
\* readings, have taken the same three calls, the last of them a step that
\* returned an action.
SeededPairStepped ==
    /\ other.seed # <<>>
    /\ agent.observationModel.learnable
    /\ ncalls = MaxCalls
    /\ lastCall.op = "step"
    /\ lastCall.returned # NULL
    /\ Len(lastCall.learnCalls) = 2

\* Without a seed the two agents can part ways.
UnseededPairDiffers ==
    /\ other.seed = <<>>
    /\ lastCall.returned # other.returned

\* C4: with fixed models and a seed, step(o) returns the action that
\* observe(o) followed by act() returns, and leaves the same belief.
StepIsObserveThenAct ==
    (lastCall.op = "split" /\ other.seed # <<>>)
    => /\ lastCall.returned = other.returned
       /\ lastCall.returned \in Actions
       /\ BeliefOf(agent) = BeliefOf(other.agent)
       /\ agent.random = other.agent.random

\* step(o) on one seeded agent and observe(o); act() on the other have run
\* after an earlier call, and the observation moved the belief.
SplitStepTaken ==
    /\ lastCall.op = "split"
    /\ other.seed # <<>>
    /\ ncalls > 1
    /\ BeliefOf(agent) \notin BeliefInputs

\* ------------------------------------------------ a Dirichlet model
\* A Dirichlet model on its own, with the code around it: learn calls,
\* reads of `matrix`, writes through the public `concentrations` field, and
\* writes to the object the constructor was given.

\* Distributions passed to learn.
DistInputs ==
    {[safe |-> ONE, danger |-> 0],
     [safe |-> ONE \div 4, danger |-> (3 * ONE) \div 4]}

\* The count an outside write stores.
PokedCount == 20 * ONE

\* The top-level keys of a model's concentrations.
DirichletKeys(d) ==
    IF d.kind = "observation" THEN Observations ELSE Actions

\* table[key] with its first cell set to v: a[o][safe] or b[a][safe][safe].
WriteCell(kind, table, key, v) ==
    IF kind = "observation"
    THEN [table EXCEPT ![key][StateOrder[1]] = v]
    ELSE [table EXCEPT ![key][StateOrder[1]][StateOrder[1]] = v]

NoDirichletCall ==
    [op |-> "new", key |-> NULL, prior |-> <<>>, posterior |-> <<>>,
     before |-> <<>>, returned |-> <<>>]

DirichletInit ==
    /\ \E c \in {ObsConcentrations, TransConcentrations} :
           /\ original = c
           /\ dirichlet = IF c = ObsConcentrations
                          THEN DirichletObservationNew(c)
                          ELSE DirichletTransitionNew(c)
    /\ dcall = NoDirichletCall
    /\ ncalls = 0
    /\ agent = Idle
    /\ callerBelief = 0
    /\ gotBelief = 0
    /\ callbackBelief = 0
    /\ lastCall = Idle
    /\ chosen = Idle
    /\ other = Idle
    /\ bcall = Idle

\* model.learn(key, posterior) or model.learn(key, prior, posterior)
Learn(key, prior, posterior) ==
    /\ ncalls < MaxCalls
    /\ key \in DirichletKeys(dirichlet)
    /\ dirichlet.kind = "observation" => prior = posterior
    /\ \E d \in {IF dirichlet.kind = "observation"
                 THEN ObsLearn(dirichlet, key, posterior).model
                 ELSE TransLearn(dirichlet, key, prior, posterior)} :
           /\ dirichlet' = d
           /\ original' = IF key \in dirichlet.shared
                          THEN [original EXCEPT ![key] = d.concentrations[key]]
                          ELSE original
    /\ dcall' = [NoDirichletCall EXCEPT
                    !.op = "learn", !.key = key,
                    !.prior = IF dirichlet.kind = "observation" THEN <<>>
                              ELSE prior,
                    !.posterior = posterior,
                    !.before = dirichlet.concentrations]
    /\ ncalls' = ncalls + 1
    /\ UNCHANGED <<agent, handles, lastCall, chosen, other, bcall>>

\* model.matrix
ReadMatrix ==
    /\ ncalls < MaxCalls
    /\ dirichlet' = DirichletRead(dirichlet)
    /\ dcall' = [NoDirichletCall EXCEPT
                    !.op = "read", !.before = dirichlet.concentrations,
                    !.returned = DirichletMatrix(dirichlet)]
    /\ ncalls' = ncalls + 1
    /\ UNCHANGED <<agent, handles, lastCall, chosen, other, original, bcall>>

\* model.concentrations[key][...] = PokedCount, by code outside the model:
\* the field is public and holds the live structure.
Poke(key) ==
    /\ ncalls < MaxCalls
    /\ key \in DirichletKeys(dirichlet)
    /\ dirichlet' = [dirichlet EXCEPT
           !.concentrations = WriteCell(dirichlet.kind, @, key, PokedCount)]
    /\ original' = IF key \in dirichlet.shared
                   THEN WriteCell(dirichlet.kind, original, key, PokedCount)
                   ELSE original
    /\ dcall' = [NoDirichletCall EXCEPT
                    !.op = "poke", !.key = key,
                    !.before = dirichlet.concentrations]
    /\ ncalls' = ncalls + 1
    /\ UNCHANGED <<agent, handles, lastCall, chosen, other, bcall>>

\* original[key][...] = PokedCount, by the caller that built the model.
MutateOriginal(key) ==
    /\ ncalls < MaxCalls
    /\ key \in DirichletKeys(dirichlet)
    /\ original' = WriteCell(dirichlet.kind, original, key, PokedCount)
    /\ dirichlet' = IF key \in dirichlet.shared
                    THEN [dirichlet EXCEPT
                             !.concentrations =
                                 WriteCell(dirichlet.kind, @, key, PokedCount)]
                    ELSE dirichlet
    /\ dcall' = [NoDirichletCall EXCEPT
                    !.op = "mutateOriginal", !.key = key,
                    !.before = dirichlet.concentrations]
    /\ ncalls' = ncalls + 1
    /\ UNCHANGED <<agent, handles, lastCall, chosen, other, bcall>>

DirichletNext ==
    \/ \E key \in Observations \cup Actions, prior, posterior \in DistInputs :
          Learn(key, prior, posterior)
    \/ ReadMatrix
    \/ \E key \in Observations \cup Actions : Poke(key)
    \/ \E key \in Observations \cup Actions : MutateOriginal(key)

SpecDirichlet == DirichletInit /\ [][DirichletNext]_vars

\* The amount learn adds to the cell of state s (and next state t).
ObsIncrement(s) == Get(dcall'.posterior, s)

TransIncrement(s, t) == FMul(Get(dcall'.prior, s), Get(dcall'.posterior, t))

\* C6: learn adds to every entry of the observed observation (the taken
\* action) the weight of its state (the product of the weights of its state
\* pair): the entry grows when that weight is positive and stays when it is
\* zero, and no other entry changes.
LearnAddsPosteriorWeight ==
    [][dcall'.op = "learn"
       => LET old == dirichlet.concentrations
              new == dirichlet'.concentrations
              key == dcall'.key
          IN  /\ \A k \in DOMAIN old \ {key} : new[k] = old[k]
              /\ dirichlet.kind = "observation"
                 => \A s \in States :
                        /\ new[key][s] = old[key][s] + ObsIncrement(s)
                        /\ new[key][s] >= old[key][s]
                        /\ new[key][s] > old[key][s] <=> ObsIncrement(s) > 0
              /\ dirichlet.kind = "transition"
                 => \A s, t \in States :
                        /\ new[key][s][t] = old[key][s][t] + TransIncrement(s, t)
                        /\ new[key][s][t] >= old[key][s][t]
                        /\ new[key][s][t] > old[key][s][t]
                               <=> TransIncrement(s, t) > 0]_vars

\* C6 as stated: learn strictly increases every entry of the observed
\* observation (the taken action).
LearnStrictlyIncreasesEveryEntry ==
    [][dcall'.op = "learn"
       => LET old == dirichlet.concentrations
              new == dirichlet'.concentrations
              key == dcall'.key
          IN  /\ \A k \in DOMAIN old \ {key} : new[k] = old[k]
              /\ dirichlet.kind = "observation"
                 => \A s \in States : new[key][s] > old[key][s]
              /\ dirichlet.kind = "transition"
                 => \A s, t \in States :
                        new[key][s][t] > old[key][s][t]]_vars

\* An observation model has learnt from a posterior that gives one state
\* no weight: that state's entry stayed, the other one grew.
LearntWithZeroWeight ==
    /\ dcall.op = "learn"
    /\ dirichlet.kind = "observation"
    /\ \E s, t \in States :
           /\ dcall.posterior[s] = 0
           /\ dirichlet.concentrations[dcall.key][s] = dcall.before[dcall.key][s]
           /\ dirichlet.concentrations[dcall.key][t] > dcall.before[dcall.key][t]

\* C7: every read of `matrix` returns the normalisation of the
\* concentrations the model holds at that read.
ReadMatrixIsFresh ==
    dcall.op = "read" => dcall.returned = DirichletNormalize(dirichlet)

\* C7, the part that holds: the cache is fresh when the counts have changed
\* through learn only.
ReadAfterLearnIsFresh ==
    [][(dcall.op = "learn" /\ dcall'.op = "read")
       => dcall'.returned = DirichletNormalize(dirichlet')]_vars

\* total is 1 up to the truncation of n quotients.
NearOne(total, n) == total <= ONE /\ ONE - total < n

\* Every next-state distribution of a transition matrix, and every column
\* of an observation matrix, sums to 1.
SumsToOne(kind, m) ==
    IF kind = "transition"
    THEN \A a \in DOMAIN m : \A s \in DOMAIN m[a] :
             NearOne(SumOver(StateOrder, m[a][s]), Len(StateOrder))
    ELSE \A s \in States :
             NearOne(SumSeq([i \in 1..Len(ObsOrder) |-> m[ObsOrder[i]][s]]),
                     Len(ObsOrder))

\* C8: whatever has been learnt, the matrix derived from the counts, and
\* the matrix a read returns, have every next-state distribution (every
\* column of P(o|s)) summing to 1.
DerivedDistributionsSumToOne ==
    /\ SumsToOne(dirichlet.kind, DirichletNormalize(dirichlet))
    /\ SumsToOne(dirichlet.kind, DirichletMatrix(dirichlet))

\* A model that has learnt is read: the matrix returned is the
\* normalisation of its counts, which are no longer the ones it was built
\* with.
LearntThenNormalized ==
    /\ dcall.op = "read"
    /\ ncalls = MaxCalls
    /\ \E k \in DirichletKeys(dirichlet) :
           dirichlet.concentrations[k][StateOrder[2]] # original[k][StateOrder[2]]
    /\ dcall.returned # DirichletNormalize([dirichlet EXCEPT
                                               !.concentrations = original])
    /\ dcall.returned = DirichletNormalize(dirichlet)

\* C9: learn and writes through the model leave the object the constructor
\* was given as it is, and a write to that object leaves the model's
\* concentrations and its matrix as they are.
NoSharedStructureWithOriginal ==
    [][/\ dcall'.op \in {"learn", "poke"} => original' = original
       /\ dcall'.op = "mutateOriginal"
          => /\ dirichlet'.concentrations = dirichlet.concentrations
             /\ DirichletMatrix(dirichlet') = DirichletMatrix(dirichlet)]_vars

\* The model has learnt and the caller has then written to the object it
\* built the model from: the two now differ in the written row.
OriginalMutatedAfterLearn ==
    /\ dcall.op = "mutateOriginal"
    /\ dirichlet.kind = "observation"
    /\ ncalls > 1
    /\ original[dcall.key] # dirichlet.concentrations[dcall.key]
    /\ dirichlet.concentrations # ObsConcentrations

\* --------------------------------------------- DiscreteBelief.update
\* One belief taken through a sequence of updates.  bcall = [prior,
\* likelihood, posterior]: the last update's receiver, argument and result.

\* Likelihoods: each state's weight 0, 1/10 or 9/10, or the state missing.
LikelihoodInputs ==
    {[safe |-> x, danger |-> y] :
        x, y \in {0, ONE \div 10, (9 * ONE) \div 10}}
    \cup {[safe |-> x] : x \in {0, ONE \div 10, (9 * ONE) \div 10}}
    \cup {<<>>}

PriorInputs ==
    BeliefInputs \cup {[safe |-> ONE \div 4, danger |-> (3 * ONE) \div 4]}

BeliefInit ==
    /\ \E p \in PriorInputs :
           bcall = [prior |-> <<>>, likelihood |-> <<>>, posterior |-> p]
    /\ ncalls = 0
    /\ agent = Idle
    /\ callerBelief = 0
    /\ gotBelief = 0
    /\ callbackBelief = 0
    /\ lastCall = Idle
    /\ chosen = Idle
    /\ other = Idle
    /\ dirichlet = Idle
    /\ original = Idle
    /\ dcall = Idle

\* belief = belief.update(likelihood)
Update(likelihood) ==
    /\ ncalls < MaxCalls
    /\ bcall' = [prior      |-> bcall.posterior,
                 likelihood |-> likelihood,
                 posterior  |-> BeliefUpdate(bcall.posterior, likelihood)]
    /\ ncalls' = ncalls + 1
    /\ UNCHANGED <<agent, handles, lastCall, chosen, other, dirichletVars>>

BeliefNext == \E likelihood \in LikelihoodInputs : Update(likelihood)

SpecBelief == BeliefInit /\ [][BeliefNext]_vars

\* prior(s) * likelihood(s), a state missing from the likelihood counting 0.
Weight(s) ==
    IF s \in DOMAIN bcall.likelihood
    THEN FMul(bcall.prior[s], bcall.likelihood[s])
    ELSE 0

WeightTotal == SumSeq([i \in 1..Len(StateOrder) |-> Weight(StateOrder[i])])

UpdatedWithMissingState ==
    /\ ncalls > 0
    /\ WeightTotal > 0
    /\ bcall.prior.danger > 0
    /\ "danger" \notin DOMAIN bcall.likelihood
    /\ bcall.posterior = [safe |-> ONE, danger |-> 0]

RECURSIVE generatePolicies(_, _)
generatePolicies(actions, depth) ==
    IF depth <= 1 THEN <<>> \o [i \in 1..Len(actions) |-> <<actions[i]>>]
    ELSE LET Prefixed(subPolicies, n) ==
                 <<>> \o [k \in 1..(Len(actions) * n) |->
                     <<actions[((k - 1) \div n) + 1]>>
                         \o subPolicies[((k - 1) % n) + 1]]
         IN  Only({Prefixed(subPolicies, Len(subPolicies)) :
                      subPolicies \in {generatePolicies(actions, depth - 1)}})

\* The loop of Agent.evaluatePolicy(policy), from the i-th action on.
RECURSIVE evaluateFrom(_, _, _, _, _, _, _)
evaluateFrom(tm, om, preferences, policy, i, totalEFE, currentBelief) ==
    IF i > Len(policy) THEN totalEFE
    ELSE Only({evaluateFrom(tm, om, preferences, policy, i + 1,
                   totalEFE + computeEFE(predicted, om, preferences),
                   predicted) :
                  predicted \in {predict(tm, currentBelief, policy[i])}})

\* Agent.evaluatePolicy(policy) of the recursive formulation.
evaluatePolicy(tm, om, preferences, distribution, policy) ==
    evaluateFrom(tm, om, preferences, policy, 1, 0, distribution)

\* Agent.act() of the recursive formulation: full enumeration, evaluation
\* of every policy, softmin, habit re-weighting, one draw.
actEnumerated(w) ==
    LET Result(policies, policyEFEs, probs, idx) ==
            [action      |-> policies[idx][1],
             policies    |-> policies,
             policyEFEs  |-> policyEFEs,
             policyProbs |-> probs,
             idx         |-> idx]
        Sampled(policies, policyEFEs, probs) ==
            Only({Result(policies, policyEFEs, probs, idx) :
                     idx \in {sampleIndex(probs, RandomNext(w.random).u)}})
        Evaluated(policies, policyEFEs) ==
            Only({Sampled(policies, policyEFEs, probs) :
                     probs \in {PolicyProbs(
                         [i \in 1..Len(policies) |->
                             [policy |-> policies[i], efe |-> policyEFEs[i]]],
                         w.precision, w.habits)}})
        Generated(tm, om, policies) ==
            Only({Evaluated(policies, policyEFEs) :
                     policyEFEs \in {<<>> \o [i \in 1..Len(policies) |->
                         evaluatePolicy(tm, om, w.preferences, BeliefOf(w),
                                        policies[i])]}})
        Read(tm, om) ==
            Only({Generated(tm, om, policies) :
                     policies \in {generatePolicies(Keys(ActionOrder, tm),
                                                    w.planningHorizon)}})
    IN  Only({Read(tm, om) : tm \in {TransMatrix(w.transitionModel)},
                             om \in {ObsMatrix(w.observationModel)}})

\* The extension loop of Agent.act step by step: for each depth the
\* expanded set and the beams kept from it.
RECURSIVE ExtensionSteps(_, _, _, _, _, _, _)
ExtensionSteps(tm, om, preferences, beams, depth, planningHorizon, beamWidth) ==
    IF depth >= planningHorizon THEN <<>>
    ELSE LET Kept(nextBeams, kept) ==
                 <<[expanded |-> nextBeams, kept |-> kept]>>
                     \o ExtensionSteps(tm, om, preferences, kept, depth + 1,
                                       planningHorizon, beamWidth)
             Expanded(nextBeams) ==
                 Only({Kept(nextBeams, kept) :
                          kept \in {PruneBeams(nextBeams, beamWidth)}})
         IN  Only({Expanded(nextBeams) :
                      nextBeams \in {ExpandBeams(tm, om, preferences, beams)}})

\* The policy and cumulative EFE of each beam.
Scores(beams) ==
    <<>> \o [i \in 1..Len(beams) |->
                [policy |-> beams[i].policy, efe |-> beams[i].efe]]

\* The extension steps of the search act() runs from the agent's belief.
searchSteps(w) ==
    LET Traced(steps) ==
            <<>> \o [i \in 1..Len(steps) |->
                        [expanded |-> Scores(steps[i].expanded),
                         kept     |-> Scores(steps[i].kept)]]
        Read(tm, om) ==
            Only({Traced(steps) :
                     steps \in {ExtensionSteps(tm, om, w.preferences,
                                    InitialBeams(tm, om, w.preferences,
                                                 BeliefOf(w)),
                                    1, w.planningHorizon, w.beamWidth)}})
    IN  Only({Read(tm, om) : tm \in {TransMatrix(w.transitionModel)},
                             om \in {ObsMatrix(w.observationModel)}})

\* planningHorizon as configured: 0.5, 2 and 3.5.
HorizonInputs == {ONE \div 2, 2 * ONE, 3 * ONE + ONE \div 2}

\* precision as configured: -1, 0 and 1.
PrecisionInputs == {0 - ONE, 0, ONE}

\* beamWidth as configured: -0.5, 1, 2.5 and 4.
BeamWidthInputs == {0 - (ONE \div 2), ONE, 2 * ONE + ONE \div 2, 4 * ONE}

\* habits as configured: none; a weight for each action; a weight for one
\* action only; weight 0 for every action.
HabitInputs ==
    {<<>>,
     [flee |-> (3 * ONE) \div 10, stay |-> (7 * ONE) \div 10],
     [flee |-> 0],
     [flee |-> 0, stay |-> 0]}

\* The configurations of the policy search.
PlanConfigs ==
    {[Config([safe |-> ONE \div 2, danger |-> ONE \div 2], m, <<SEED_A>>)
          EXCEPT !.planningHorizon = h, !.precision = p,
                 !.beamWidth = bw, !.habits = hb] :
        m \in ModelInputs, h \in HorizonInputs, p \in PrecisionInputs,
        bw \in BeamWidthInputs, hb \in HabitInputs}

\* The number of calls made on one agent of the policy search.
MaxPlanCalls == 2

NoPlanCall ==
    [op |-> "new", arg |-> NULL, returned |-> NULL, search |-> <<>>,
     enumerated |-> <<>>, steps |-> <<>>]

\* createAgent(config); `other` keeps the configuration as it was passed.
PlanInit ==
    /\ other \in PlanConfigs
    /\ agent = createAgent(other, 0)
    /\ lastCall = NoPlanCall
    /\ ncalls = 0
    /\ callerBelief = 1
    /\ gotBelief = 0
    /\ callbackBelief = 0
    /\ chosen = Idle
    /\ dirichlet = Idle
    /\ original = Idle
    /\ dcall = Idle
    /\ bcall = Idle

\* agent.observe(o)
PlanObserve(o) ==
    /\ ncalls < MaxPlanCalls
    /\ agent' = observe(agent, o)
    /\ lastCall' = [NoPlanCall EXCEPT !.op = "observe", !.arg = o]
    /\ ncalls' = ncalls + 1
    /\ UNCHANGED <<handles, chosen, other, dirichletVars, bcall>>

\* agent.act(), with the candidates of its search, the steps that led to
\* them, and what the recursive formulation computes from the same agent.
PlanAct ==
    /\ ncalls < MaxPlanCalls
    /\ \E a \in {act(agent)}, e \in {actEnumerated(agent)},
          steps \in {searchSteps(agent)} :
           /\ agent' = a.agent
           /\ lastCall' = [op |-> "act", arg |-> NULL, returned |-> a.action,
                           search |-> [policies    |-> a.policies,
                                       policyEFEs  |-> a.policyEFEs,
                                       policyProbs |-> a.policyProbs,
                                       idx         |-> a.idx],
                           enumerated |-> e,
                           steps |-> steps]
    /\ ncalls' = ncalls + 1
    /\ UNCHANGED <<handles, chosen, other, dirichletVars, bcall>>

PlanNext ==
    \/ \E o \in Observations : PlanObserve(o)
    \/ PlanAct

SpecPlan == PlanInit /\ [][PlanNext]_vars

\* |actions|^H
RECURSIVE Power(_, _)
Power(n, k) == IF k = 0 THEN 1 ELSE n * Power(n, k - 1)

\* C11: with beam width 0 the beam search of act() ends with exactly the
\* |actions|^H action sequences of the recursive full enumeration, in the
\* same order and each with the same cumulative EFE, and for the same
\* belief, models, precision, habits and draw both formulations return the
\* same action.
BeamSearchRefinesEnumeration ==
    (lastCall.op = "act" /\ agent.beamWidth = 0) =>
        /\ Len(lastCall.search.policies)
               = Power(Len(Keys(ActionOrder, TransMatrix(agent.transitionModel))),
                       agent.planningHorizon)
        /\ lastCall.search.policies = lastCall.enumerated.policies
        /\ lastCall.search.policyEFEs = lastCall.enumerated.policyEFEs
        /\ lastCall.search.policyProbs = lastCall.enumerated.policyProbs
        /\ lastCall.returned = lastCall.enumerated.action

\* act() ran an unpruned search of horizon 3 whose eight candidates do not
\* all have the same cumulative EFE.
UnprunedSearchOfHorizonThree ==
    /\ lastCall.op = "act"
    /\ agent.beamWidth = 0
    /\ agent.planningHorizon = 3
    /\ Len(lastCall.search.policies) = 8
    /\ \E i, j \in 1..8 :
           lastCall.search.policyEFEs[i] # lastCall.search.policyEFEs[j]

\* The actions of the agent's transition model.
AgentActions == Keys(ActionOrder, TransMatrix(agent.transitionModel))

\* C12: each candidate policy at the end of act()'s search has length
\* exactly the effective planning horizon, and act() returns the first
\* action of one of those candidates, a member of the transition model's
\* action set.
CandidatesSpanHorizon ==
    lastCall.op = "act" =>
        /\ lastCall.search.policies # <<>>
        /\ \A i \in 1..Len(lastCall.search.policies) :
               Len(lastCall.search.policies[i]) = agent.planningHorizon
        /\ lastCall.search.idx \in 1..Len(lastCall.search.policies)
        /\ lastCall.returned
               = lastCall.search.policies[lastCall.search.idx][1]
        /\ \E i \in 1..Len(AgentActions) : lastCall.returned = AgentActions[i]

\* act() ran a pruned search of horizon 3 and returned the first action of
\* its last candidate.
PrunedSearchOfHorizonThree ==
    /\ lastCall.op = "act"
    /\ agent.planningHorizon = 3
    /\ agent.beamWidth = 2
    /\ Len(lastCall.search.policies) = 2
    /\ lastCall.search.idx = 2

\* Math.floor of a fixed-point number, as an integer.
Floor(x) == x \div ONE

Min2(a, b) == IF a <= b THEN a ELSE b

\* The selection probabilities of the last act() are all the same.
SelectionIsUniform ==
    \A i, j \in 1..Len(lastCall.search.policyProbs) :
        lastCall.search.policyProbs[i] = lastCall.search.policyProbs[j]

EmptyTransition == DiscreteModel(<<>>)

\* A belief over the states of another environment.
MismatchedBelief == [start |-> ONE, trap |-> 0, doom |-> 0, safe |-> 0]

ConfigInputs ==
    {[Config(b, [transition |-> t, observation |-> o], <<SEED_A>>)
          EXCEPT !.planningHorizon = h] :
        b \in BeliefInputs \cup {MismatchedBelief},
        t \in {DiscreteModel(TransMatrixFixed),
               DirichletTransitionNew(TransConcentrations),
               EmptyTransition},
        o \in {DiscreteModel(ObsMatrixFixed),
               DirichletObservationNew(ObsConcentrations)},
        h \in {ONE, 2 * ONE}}

\* The number of calls made on one agent built from a configuration.
MaxConfigCalls == 2

\* Agent.act() with no action to choose from: the search has no beam, and
\* softmax reduces an empty array without an initial value, a TypeError.
actThrows(w) == Keys(ActionOrder, TransMatrix(w.transitionModel)) = <<>>

NoConfigCall == [op |-> "config", arg |-> NULL, returned |-> NULL, threw |-> FALSE]

\* A configuration is at hand; nothing is built yet.
ConfigInit ==
    /\ other \in ConfigInputs
    /\ agent = Idle
    /\ lastCall = NoConfigCall
    /\ ncalls = 0
    /\ callerBelief = 0
    /\ gotBelief = 0
    /\ callbackBelief = 0
    /\ chosen = Idle
    /\ dirichlet = Idle
    /\ original = Idle
    /\ dcall = Idle
    /\ bcall = Idle

\* createAgent(config): no statement of the factory or of the constructor
\* throws.
Create ==
    /\ lastCall.op = "config"
    /\ agent' = createAgent(other, 0)
    /\ lastCall' = [NoConfigCall EXCEPT !.op = "new"]
    /\ callerBelief' = 1
    /\ UNCHANGED <<gotBelief, callbackBelief, chosen, ncalls, other,
                   dirichletVars, bcall>>

\* agent.observe(o)
ConfigObserve(o) ==
    /\ lastCall.op # "config"
    /\ ncalls < MaxConfigCalls
    /\ agent' = observe(agent, o)
    /\ lastCall' = [NoConfigCall EXCEPT !.op = "observe", !.arg = o]
    /\ ncalls' = ncalls + 1
    /\ UNCHANGED <<handles, chosen, other, dirichletVars, bcall>>

\* agent.act()
ConfigAct ==
    /\ lastCall.op # "config"
    /\ ncalls < MaxConfigCalls
    /\ IF actThrows(agent)
       THEN /\ agent' = agent
            /\ lastCall' = [NoConfigCall EXCEPT !.op = "act", !.threw = TRUE]
       ELSE \E a \in {act(agent)} :
                /\ agent' = a.agent
                /\ lastCall' = [NoConfigCall EXCEPT !.op = "act",
                                                    !.returned = a.action]
    /\ ncalls' = ncalls + 1
    /\ UNCHANGED <<handles, chosen, other, dirichletVars, bcall>>

ConfigNext ==
    \/ Create
    \/ \E o \in Observations : ConfigObserve(o)
    \/ ConfigAct

SpecConfig == ConfigInit /\ [][ConfigNext]_vars

\* The state set of a belief, and of a model's first row.
KeySet(q) == {q[i] : i \in 1..Len(q)}

\* A configuration without error: the transition model has an action, and
\* both models range over the states of the belief.
SoundConfig(config) ==
    /\ Keys(ActionOrder, TransMatrix(config.transitionModel)) # <<>>
    /\ KeySet(TransStates(TransMatrix(config.transitionModel)))
           = DOMAIN config.belief
    /\ KeySet(ObsStates(ObsMatrix(config.observationModel)))
           = DOMAIN config.belief

\* C14: a configuration error is reported when the agent is constructed:
\* building an agent whose transition model has an empty action set, or
\* whose models' state sets do not match the belief, fails at construction,
\* so act() and observe() are never reached with such a configuration.
ConfigurationErrorsFailAtConstruction ==
    lastCall.op \in {"new", "observe", "act"} => SoundConfig(other)

\* act() threw inside the search, on an agent built without any action.
ActThrewOnEmptyActionSet ==
    /\ lastCall.op = "act"
    /\ lastCall.threw
    /\ ~SoundConfig(other)

\* observe() ran on a belief whose states the models do not know, and left
\* a belief of probability 0 everywhere.
ObservedWithMismatchedStates ==
    /\ lastCall.op = "observe"
    /\ DOMAIN other.belief # KeySet(ObsStates(ObsMatrix(other.observationModel)))
    /\ \A s \in DOMAIN BeliefOf(agent) : BeliefOf(agent)[s] = 0

\* The habit product of every candidate of the last act() is 0.
EveryHabitProductIsZero ==
    \A i \in 1..Len(lastCall.search.policies) :
        getPolicyHabit(other.habits, lastCall.search.policies[i]) = 0

\* C15: every normalisation guards its divide; in particular, when the
\* habit re-weighting of act() meets candidates whose habit products are
\* all 0, each selection probability becomes 0, and no NaN results.
HabitReweightingIsGuarded ==
    lastCall.op = "act" =>
        /\ \A i \in 1..Len(lastCall.search.policyProbs) :
               lastCall.search.policyProbs[i] # NaN
        /\ (other.habits # <<>> /\ EveryHabitProductIsZero) =>
               \A i \in 1..Len(lastCall.search.policyProbs) :
                   lastCall.search.policyProbs[i] = 0

\* act() chose among candidates whose selection probabilities were all NaN:
\* the draw compared false with every cumulative sum, and the last
\* candidate was taken.
ChoseAmongNaNProbabilities ==
    /\ lastCall.op = "act"
    /\ EveryHabitProductIsZero
    /\ \A i \in 1..Len(lastCall.search.policyProbs) :
           lastCall.search.policyProbs[i] = NaN
    /\ lastCall.search.idx = Len(lastCall.search.policies)

\* ------------------------------------------------- what the calls leave
\* The properties below are about the single agent of Spec.

\* No count of the table `new` is below the count of `old` in the same cell.
NoCountDecreased(kind, old, new) ==
    IF kind = "observation"
    THEN \A o \in DOMAIN old : \A s \in DOMAIN old[o] : new[o][s] >= old[o][s]
    ELSE \A a \in DOMAIN old : \A s \in DOMAIN old[a] :
             \A t \in DOMAIN old[a][s] : new[a][s][t] >= old[a][s][t]

\* The call just made was a step() whose learning phase let the model of
\* the given kind learn.
LearntInStep(kind) ==
    /\ lastCall'.op = "step"
    /\ \E i \in 1..Len(lastCall'.learnCalls) :
           lastCall'.learnCalls[i].model = kind

\* What one call may do to a model: nothing to a fixed model; to a
\* Dirichlet model, raise counts, and only in the learning phase of step().
ModelFrame(kind, old, new) ==
    IF ~old.learnable THEN new = old
    ELSE /\ new.learnable
         /\ DOMAIN new.concentrations = DOMAIN old.concentrations
         /\ NoCountDecreased(kind, old.concentrations, new.concentrations)
         /\ new.concentrations # old.concentrations => LearntInStep(kind)

\* C16: across any sequence of observe(), act(), step() and resetBelief()
\* calls, a fixed model's matrix is never changed, and a Dirichlet model's
\* concentrations are changed only by the learning phase of step() and are
\* never reset or decreased.
ModelsChangeOnlyByLearning ==
    [][/\ ModelFrame("observation", agent.observationModel,
                     agent'.observationModel)
       /\ ModelFrame("transition", agent.transitionModel,
                     agent'.transitionModel)]_vars

\* The third call on the agent, a step(), has let both Dirichlet models
\* learn.
BothModelsLearntInStep ==
    /\ ncalls = 3
    /\ lastCall.op = "step"
    /\ Len(lastCall.learnCalls) = 2
    /\ agent.observationModel.concentrations # ObsConcentrations
    /\ agent.transitionModel.concentrations # TransConcentrations

\* A step() has run on fixed models and a caller's own callback.
SteppedOnFixedModels ==
    /\ lastCall.op = "step"
    /\ ~lastCall.threw
    /\ ~agent.observationModel.learnable
    /\ agent.observationModel.matrix = ObsMatrixFixed
    /\ agent.transitionModel.matrix = TransMatrixFixed

\* ------------------------------------------------- the deceptive trap
\* The test "planning avoids trap that greedy falls into": from `start`,
\* go_trap leads to `trap` and from there to `doom`; go_safe leads to `safe`.

trapObservation ==
    DiscreteModel(
        [see_start |-> [start |-> ONE, trap |-> 0, doom |-> 0, safe |-> 0],
         see_trap  |-> [start |-> 0, trap |-> ONE, doom |-> 0, safe |-> 0],
         see_doom  |-> [start |-> 0, trap |-> 0, doom |-> ONE, safe |-> 0],
         see_safe  |-> [start |-> 0, trap |-> 0, doom |-> 0, safe |-> ONE]])

trapTransition ==
    DiscreteModel(
        [go_trap |->
            [start |-> [start |-> 0, trap |-> ONE, doom |-> 0, safe |-> 0],
             trap  |-> [start |-> 0, trap |-> 0, doom |-> ONE, safe |-> 0],
             doom  |-> [start |-> 0, trap |-> 0, doom |-> ONE, safe |-> 0],
             safe  |-> [start |-> 0, trap |-> 0, doom |-> 0, safe |-> ONE]],
         go_safe |->
            [start |-> [start |-> 0, trap |-> 0, doom |-> 0, safe |-> ONE],
             trap  |-> [start |-> 0, trap |-> 0, doom |-> 0, safe |-> ONE],
             doom  |-> [start |-> 0, trap |-> 0, doom |-> ONE, safe |-> 0],
             safe  |-> [start |-> 0, trap |-> 0, doom |-> 0, safe |-> ONE]]])

trapPreferences ==
    [see_start |-> 0, see_trap |-> 0, see_doom |-> (0 - 10) * ONE,
     see_safe |-> 0]

\* tests/constants.ts
SAMPLE_SIZE == 100

\* The configuration of one trial's agent: certain of `start`, seeded with
\* the trial's index, precision and the rest left to their defaults.
TrapConfig(planningHorizon, seed) ==
    [belief |-> [start |-> ONE, trap |-> 0, doom |-> 0, safe |-> 0],
     transitionModel |-> trapTransition,
     observationModel |-> trapObservation,
     preferences |-> trapPreferences,
     seed |-> <<seed>>, planningHorizon |-> planningHorizon * ONE,
     precision |-> ONE, habits |-> <<>>, beamWidth |-> 0]

\* The total selection probability of the candidates that begin with action.
FirstActionProb(searched, action) ==
    SumSeq([i \in 1..Len(searched.policies) |->
               IF searched.policies[i][1] = action
               THEN searched.policyProbs[i] ELSE 0])

NoResults == [go_trap |-> 0, go_safe |-> 0]

\* No trial has run; `chosen` keeps greedyResults and planningResults.
TrapInit ==
    /\ ncalls = 0
    /\ chosen = [greedy |-> NoResults, planning |-> NoResults]
    /\ lastCall = [op |-> "none"]
    /\ agent = Idle
    /\ other = Idle
    /\ callerBelief = 0
    /\ gotBelief = 0
    /\ callbackBelief = 0
    /\ dirichlet = Idle
    /\ original = Idle
    /\ dcall = Idle
    /\ bcall = Idle

\* One pass of the test's loop, i = ncalls: a greedy and a planning agent
\* are built with seed i, each acts once, and the results are counted.
Trial ==
    /\ ncalls < SAMPLE_SIZE
    /\ \E greedy \in {act(createAgent(TrapConfig(1, ncalls), 0))},
          planning \in {act(createAgent(TrapConfig(2, ncalls), 0))} :
           /\ agent' = greedy.agent
           /\ other' = planning.agent
           /\ chosen' = [greedy |->
                            [chosen.greedy EXCEPT ![greedy.action] = @ + 1],
                         planning |->
                            [chosen.planning EXCEPT ![planning.action] = @ + 1]]
           /\ lastCall' =
                  [op |-> "trial",
                   greedy   |-> [action |-> greedy.action,
                                 go_trap |-> FirstActionProb(greedy, "go_trap"),
                                 go_safe |-> FirstActionProb(greedy, "go_safe")],
                   planning |-> [action |-> planning.action,
                                 go_trap |-> FirstActionProb(planning, "go_trap"),
                                 go_safe |-> FirstActionProb(planning, "go_safe")]]
    /\ ncalls' = ncalls + 1
    /\ UNCHANGED <<handles, dirichletVars, bcall>>

TrapNext == Trial

SpecTrap == TrapInit /\ [][TrapNext]_vars

\* C17: in the deceptive-trap model, starting from certainty in `start`,
\* the horizon-2 agent gives the policies beginning with go_safe more total
\* selection probability than those beginning with go_trap, while the
\* horizon-1 agent gives both actions equal probability, so that over the
\* trials seeded 0..99 the horizon-2 agent chooses go_safe strictly more
\* often than the horizon-1 agent (and more often than go_trap).
PlanningAvoidsTrap ==
    /\ lastCall.op = "trial" =>
           /\ lastCall.planning.go_safe > lastCall.planning.go_trap
           /\ lastCall.greedy.go_safe = lastCall.greedy.go_trap
    /\ chosen.planning.go_safe >= chosen.greedy.go_safe
    /\ ncalls = SAMPLE_SIZE =>
           /\ chosen.planning.go_safe > chosen.greedy.go_safe
           /\ chosen.planning.go_safe > chosen.planning.go_trap

\* All trials have run, and in one of them the greedy agent walked into the
\* trap while the planning agent, on the same draw, went to safety.
TrialsDone ==
    /\ ncalls = SAMPLE_SIZE
    /\ chosen.greedy.go_trap + chosen.greedy.go_safe = SAMPLE_SIZE
    /\ chosen.planning.go_trap + chosen.planning.go_safe = SAMPLE_SIZE
    /\ chosen.greedy.go_trap > chosen.planning.go_trap

\* ------------------------------------------------- the Gaussian update
\* GaussianObservation.update on its own.  A GaussianBelief is
\* [mean, variance]; a GaussianObservation is [scale, bias, noise].

\* new GaussianBelief(mean, variance): both stored as given.
GaussianBeliefNew(mean, variance) == [mean |-> mean, variance |-> variance]

\* A faulty variant of update whose innovation variance S leaves out the
\* share of the prior.
GaussianUpdateNoiseOnly(model, belief, observation) ==
    LET c == model.scale
        predictedObs == FMul(c, belief.mean) + model.bias
        S == model.noise
        K == IF S = 0 THEN NaN ELSE FDiv(FMul(c, belief.variance), S)
    IN  IF K = NaN THEN GaussianBeliefNew(NaN, NaN)
        ELSE GaussianBeliefNew(
                 belief.mean + FMul(K, observation - predictedObs),
                 FMul(ONE - FMul(K, c), belief.variance))

\* GaussianObservation.update(belief, observation): the Kalman update.  A
\* gain of 0 / 0 makes mean and variance NaN.
GaussianUpdate(model, belief, observation) ==
    LET c == model.scale
        predictedObs == FMul(c, belief.mean) + model.bias
        S == FMul(FMul(c, c), belief.variance) + model.noise
        K == IF S = 0 THEN NaN ELSE FDiv(FMul(c, belief.variance), S)
    IN  IF K = NaN THEN GaussianBeliefNew(NaN, NaN)
        ELSE GaussianBeliefNew(
                 belief.mean + FMul(K, observation - predictedObs),
                 FMul(ONE - FMul(K, c), belief.variance))

\* Priors: means -1 and 1; variances 0.1, 1 and 4, and the smallest
\* positive number of the arithmetic.
GaussianPriors ==
    {GaussianBeliefNew(mean, variance) :
        mean \in {0 - ONE, ONE},
        variance \in {1, ONE \div 10, ONE, 4 * ONE}}

\* Observation models: y = x + noise with noise variance 0.1 or 1, and one
\* with scale 2 and bias 1.
GaussianModels ==
    {[scale |-> ONE, bias |-> 0, noise |-> noise] :
        noise \in {ONE \div 10, ONE}}
    \cup {[scale |-> 2 * ONE, bias |-> ONE, noise |-> ONE \div 10]}

\* Observations: -2, 0.5 and 3.2.
GaussianObservations == {0 - 2 * ONE, ONE \div 2, (32 * ONE) \div 10}

\* The number of updates made in one run.
MaxUpdates == 2

\* `bcall` keeps the model, and the prior, observation and posterior of the
\* last update; the current belief is the posterior.
GaussianInit ==
    /\ \E belief \in GaussianPriors, model \in GaussianModels :
           bcall = [model |-> model, prior |-> belief, observation |-> 0,
                    posterior |-> belief]
    /\ ncalls = 0
    /\ agent = Idle
    /\ other = Idle
    /\ lastCall = Idle
    /\ chosen = Idle
    /\ callerBelief = 0
    /\ gotBelief = 0
    /\ callbackBelief = 0
    /\ dirichlet = Idle
    /\ original = Idle
    /\ dcall = Idle

\* belief = observationModel.update(belief, y)
KalmanUpdate(y) ==
    /\ ncalls < MaxUpdates
    /\ bcall.posterior.variance # NaN
    /\ bcall' = [model |-> bcall.model, prior |-> bcall.posterior,
                 observation |-> y,
                 posterior |-> GaussianUpdate(bcall.model, bcall.posterior, y)]
    /\ ncalls' = ncalls + 1
    /\ UNCHANGED <<agent, other, lastCall, chosen, handles, dirichletVars>>

GaussianNext == \E y \in GaussianObservations : KalmanUpdate(y)

SpecGaussian == GaussianInit /\ [][GaussianNext]_vars

\* The last update was made by a model y = x + noise of positive noise
\* variance, on a prior of positive variance and an observation other than
\* the prior mean.
KalmanCase ==
    /\ ncalls > 0
    /\ bcall.model.scale = ONE
    /\ bcall.model.bias = 0
    /\ bcall.model.noise > 0
    /\ bcall.prior.variance > 0
    /\ bcall.observation # bcall.prior.mean

\* The posterior mean lies strictly between the prior mean and the
\* observation, and the posterior variance strictly between 0 and the
\* prior variance.
PosteriorStrictlyInside ==
    /\ \/ /\ bcall.prior.mean < bcall.posterior.mean
          /\ bcall.posterior.mean < bcall.observation
       \/ /\ bcall.observation < bcall.posterior.mean
          /\ bcall.posterior.mean < bcall.prior.mean
    /\ bcall.posterior.variance < bcall.prior.variance
    /\ bcall.posterior.variance > 0

\* The two variances are within a factor of 64 of each other, and they and
\* the distance of the observation from the prior mean are at least 1/32.
WellScaled ==
    /\ bcall.prior.variance <= 64 * bcall.model.noise
    /\ bcall.model.noise <= 64 * bcall.prior.variance
    /\ 32 * bcall.prior.variance >= ONE
    /\ 32 * bcall.model.noise >= ONE
    /\ 32 * Abs(bcall.observation - bcall.prior.mean) >= ONE

LikelihoodIsZeroEverywhere ==
    \A s \in DOMAIN bcall.prior : Get(bcall.likelihood, s) = 0

\* C19: update called with a likelihood that is 0 for every state returns
\* a belief with the same distribution as the prior.
ZeroLikelihoodKeepsPrior ==
    (ncalls > 0 /\ LikelihoodIsZeroEverywhere) =>
        bcall.posterior = bcall.prior

\* What update returns instead: probability 0 for every state.
ZeroLikelihoodGivesZeroBelief ==
    (ncalls > 0 /\ LikelihoodIsZeroEverywhere) =>
        \A s \in DOMAIN bcall.prior : bcall.posterior[s] = 0

\* update was called on a proper prior with a likelihood of 0 everywhere.
UpdatedWithZeroLikelihood ==
    /\ ncalls > 0
    /\ LikelihoodIsZeroEverywhere
    /\ bcall.prior = [safe |-> ONE \div 2, danger |-> ONE \div 2]
    /\ bcall.posterior = [safe |-> 0, danger |-> 0]

\* The properties below are about the extension steps of act(), under
\* SpecPlan.

\* The place of an entry, known by its policy, in a list of entries (0 when
\* it is not there).
PlaceIn(entries, policy) ==
    IF \E i \in 1..Len(entries) : entries[i].policy = policy
    THEN CHOOSE i \in 1..Len(entries) : entries[i].policy = policy
    ELSE 0

\* What one extension step keeps of its expanded set under beam width w.
StepKeepsLowest(expanded, kept, w) ==
    IF w > 0 /\ Len(expanded) > w
    THEN /\ Len(kept) = w
         /\ \A k \in 1..Len(kept) : PlaceIn(expanded, kept[k].policy) > 0
         /\ \A k \in 1..Len(kept) :
                kept[k] = expanded[PlaceIn(expanded, kept[k].policy)]
         /\ \A d \in 1..Len(expanded) :
                PlaceIn(kept, expanded[d].policy) = 0 =>
                    \A k \in 1..Len(kept) :
                        /\ expanded[d].efe >= kept[k].efe
                        /\ expanded[d].efe = kept[k].efe =>
                               PlaceIn(expanded, kept[k].policy) < d
         /\ \A j, k \in 1..Len(kept) :
                j < k =>
                    /\ kept[j].efe <= kept[k].efe
                    /\ kept[j].efe = kept[k].efe =>
                           PlaceIn(expanded, kept[j].policy)
                               < PlaceIn(expanded, kept[k].policy)
    ELSE kept = expanded

\* C20: in each extension step of act(), when the beam width w is positive
\* and the expanded set has more than w entries, exactly w entries survive
\* and no discarded entry has a strictly lower cumulative EFE than any
\* surviving one, entries of equal EFE keeping their expansion order; in
\* every other case all expansions survive.  The candidates of act() are
\* the survivors of the last step.
ExtensionKeepsLowestEFE ==
    lastCall.op = "act" =>
        /\ Len(lastCall.steps) = agent.planningHorizon - 1
        /\ \A i \in 1..Len(lastCall.steps) :
               StepKeepsLowest(lastCall.steps[i].expanded,
                               lastCall.steps[i].kept, agent.beamWidth)
        /\ lastCall.steps # <<>> =>
               /\ lastCall.search.policies
                      = [i \in 1..Len(lastCall.steps[Len(lastCall.steps)].kept) |->
                            lastCall.steps[Len(lastCall.steps)].kept[i].policy]
               /\ lastCall.search.policyEFEs
                      = [i \in 1..Len(lastCall.steps[Len(lastCall.steps)].kept) |->
                            lastCall.steps[Len(lastCall.steps)].kept[i].efe]

\* An extension step discarded an entry that came earlier in the expansion
\* than a surviving one, and another step kept every expansion although
\* the beam width was positive.
PrunedOutOfExpansionOrder ==
    /\ lastCall.op = "act"
    /\ agent.beamWidth > 0
    /\ \E i \in 1..Len(lastCall.steps) :
           /\ Len(lastCall.steps[i].expanded) > agent.beamWidth
           /\ \E d \in 1..Len(lastCall.steps[i].expanded) :
                  /\ PlaceIn(lastCall.steps[i].kept,
                             lastCall.steps[i].expanded[d].policy) = 0
                  /\ \E k \in 1..Len(lastCall.steps[i].kept) :
                         PlaceIn(lastCall.steps[i].expanded,
                                 lastCall.steps[i].kept[k].policy) > d
    /\ \E i \in 1..Len(lastCall.steps) :
           Len(lastCall.steps[i].expanded) <= agent.beamWidth

\* An extension step cut between two entries of equal cumulative EFE.
TieCutByBeamWidth ==
    /\ lastCall.op = "act"
    /\ agent.beamWidth > 0
    /\ \E i \in 1..Len(lastCall.steps) :
           /\ Len(lastCall.steps[i].expanded) > agent.beamWidth
           /\ \E d \in 1..Len(lastCall.steps[i].expanded) :
                  /\ PlaceIn(lastCall.steps[i].kept,
                             lastCall.steps[i].expanded[d].policy) = 0
                  /\ \E k \in 1..Len(lastCall.steps[i].kept) :
                         lastCall.steps[i].kept[k].efe
                             = lastCall.steps[i].expanded[d].efe

\* ----------------------------------------------------------------------
\* The properties below are about the habit re-weighting of act(), under
\* SpecPlan.

\* The habit weight of an action: 1 for an action without an entry.
HabitWeight(habits, action) ==
    IF action \in DOMAIN habits THEN habits[action] ELSE ONE

\* The product of the habit weights of the first n actions of a policy.
RECURSIVE HabitProduct(_, _, _)
HabitProduct(habits, policy, n) ==
    IF n = 0 THEN ONE
    ELSE FMul(HabitProduct(habits, policy, n - 1),
              HabitWeight(habits, policy[n]))

\* softmin(p) times the habit product of p, for each candidate of the last
\* act().
HabitWeighted ==
    LET sm == softmin(lastCall.search.policyEFEs, agent.precision)
    IN  [i \in 1..Len(lastCall.search.policies) |->
            FMul(sm[i], HabitProduct(agent.habits, lastCall.search.policies[i],
                                     Len(lastCall.search.policies[i])))]

\* C21: when the habits map has at least one entry, the selection
\* probability of candidate policy p is softmin(p) multiplied by the product
\* of the habit weights of its actions (weight 1 for an action without an
\* entry), divided by the sum of that product over all candidates (the
\* quotient 0 / 0 is NaN); when the habits map is empty the selection
\* probabilities are the plain softmin values.
HabitsReweightSoftmin ==
    lastCall.op = "act" =>
        IF DOMAIN agent.habits # {}
        THEN /\ Len(lastCall.search.policyProbs)
                    = Len(lastCall.search.policies)
             /\ \A i \in 1..Len(lastCall.search.policies) :
                    lastCall.search.policyProbs[i]
                        = IF SumSeq(HabitWeighted) = 0 THEN NaN
                          ELSE FDiv(HabitWeighted[i], SumSeq(HabitWeighted))
        ELSE lastCall.search.policyProbs
                 = softmin(lastCall.search.policyEFEs, agent.precision)

\* act() chose among candidates of three actions under a habits map with
\* an entry for "flee" only: the candidates containing "flee" have
\* probability 0 and the one without it a positive probability that is not
\* its softmin value.
ReweightedWithAbsentEntry ==
    /\ lastCall.op = "act"
    /\ DOMAIN agent.habits = {"flee"}
    /\ agent.planningHorizon = 3
    /\ agent.precision > 0
    /\ \E i \in 1..Len(lastCall.search.policies) :
           /\ lastCall.search.policyProbs[i] > 0
           /\ lastCall.search.policyProbs[i]
                  # softmin(lastCall.search.policyEFEs, agent.precision)[i]
    /\ \E i \in 1..Len(lastCall.search.policies) :
           lastCall.search.policyProbs[i] = 0

\* act() chose under a habits map with a positive weight for each action.
ReweightedWithPositiveWeights ==
    /\ lastCall.op = "act"
    /\ DOMAIN agent.habits = {"flee", "stay"}
    /\ agent.habits["flee"] > 0
    /\ agent.planningHorizon = 2
    /\ lastCall.search.policyProbs
           # softmin(lastCall.search.policyEFEs, agent.precision)
    /\ \A i \in 1..Len(lastCall.search.policies) :
           lastCall.search.policyProbs[i] > 0

\* ------------------------------------------------------------ sampling
\* Agent.sampleIndex on probability vectors and draws of its own.  Indices
\* are counted from 1 here: index i stands for the code's i - 1.

\* Probability vectors of length 1 to 3, among them vectors that start or
\* end with 0 and the three thirds, which sum to less than 1 after rounding.
ProbInputs ==
    {<<ONE>>,
     <<ONE \div 2, ONE \div 2>>,
     <<0, ONE>>,
     <<ONE, 0>>,
     <<ONE \div 4, (3 * ONE) \div 4>>,
     <<ONE \div 3, ONE \div 3, ONE \div 3>>,
     <<ONE \div 4, ONE \div 2, ONE \div 4>>,
     <<0, ONE \div 2, ONE \div 2>>,
     <<ONE \div 2, 0, ONE \div 2>>,
     <<ONE \div 10, ONE \div 10, (8 * ONE) \div 10>>}

\* 32-bit values of Random.next(): 0, 1/4, just below and at 1/3, 1/2, 3/4
\* and the two largest multiples of 2^-12 below 1.
DrawInputs ==
    {<<0, 0>>, <<16384, 0>>, <<21840, 0>>, <<21845, 21845>>, <<32768, 0>>,
     <<49152, 0>>, <<65520, 0>>, <<65535, 65535>>}

\* The number of samples taken from one vector.
MaxSamples == 2

\* dcall holds the vector sampled from, bcall the last sample taken.
SampleInit ==
    /\ bcall = [probs |-> Idle, u |-> Idle, index |-> 0]
    /\ dcall \in ProbInputs
    /\ ncalls = 0
    /\ agent = Idle
    /\ callerBelief = 0
    /\ gotBelief = 0
    /\ callbackBelief = 0
    /\ lastCall = Idle
    /\ chosen = Idle
    /\ other = Idle
    /\ dirichlet = Idle
    /\ original = Idle

\* sampleIndex(probs) with a draw whose 32-bit value is u.
Sample(u) ==
    /\ ncalls < MaxSamples
    /\ bcall' = [probs |-> dcall, u |-> u, index |-> sampleIndex(dcall, u)]
    /\ ncalls' = ncalls + 1
    /\ UNCHANGED <<agent, handles, lastCall, chosen, other, dirichletVars>>

SampleNext == \E u \in DrawInputs : Sample(u)

SpecSample == SampleInit /\ [][SampleNext]_vars

\* The indices whose cumulative probability exceeds the last draw.
Exceeding ==
    {i \in 1..Len(bcall.probs) :
        DrawBelow(bcall.u, SumUpTo(bcall.probs, i))}

\* C22: for any probability vector p of length n >= 1 and any draw u in
\* [0,1), the sampled index is the smallest i with u < p[0]+...+p[i], or the
\* last index when no such i exists; the result is always an index of p.
SampleIsFirstExceeding ==
    ncalls > 0 =>
        /\ bcall.index \in 1..Len(bcall.probs)
        /\ bcall.index = IF Exceeding = {} THEN Len(bcall.probs)
                         ELSE CHOOSE i \in Exceeding :
                                  \A j \in Exceeding : i <= j

\* A sample fell on the second of three indices, the first one's cumulative
\* probability not exceeding the draw.
SampledMiddleIndex ==
    /\ ncalls > 0
    /\ Len(bcall.probs) = 3
    /\ bcall.probs[1] > 0
    /\ bcall.index = 2
    /\ Exceeding = {2, 3}

\* A sample fell back to the last index: no cumulative probability exceeded
\* the draw.
SampledByFallback ==
    /\ ncalls > 0
    /\ Len(bcall.probs) = 3
    /\ Exceeding = {}
    /\ bcall.index = 3

\* ------------------------------------------------- direct calls and steps
\* Agents of several horizons, beam widths and habits, all with learnable
\* models, under observe(), act(), step() and resetBelief().

\* planningHorizon, beamWidth and habits as configured.
FrameSettings ==
    {[planningHorizon |-> ONE, beamWidth |-> 0, habits |-> <<>>],
     [planningHorizon |-> 2 * ONE, beamWidth |-> 0, habits |-> [flee |-> 0]],
     [planningHorizon |-> 3 * ONE, beamWidth |-> 2 * ONE,
      habits |-> [flee |-> (3 * ONE) \div 10, stay |-> (7 * ONE) \div 10]],
     [planningHorizon |-> 3 * ONE, beamWidth |-> 0, habits |-> <<>>]}

FrameInputs ==
    {createAgent(
         [Config([safe |-> ONE \div 2, danger |-> ONE \div 2],
                 [transition  |-> DirichletTransitionNew(TransConcentrations),
                  observation |-> DirichletObservationNew(ObsConcentrations)],
                 <<seed>>)
             EXCEPT !.planningHorizon = c.planningHorizon,
                    !.beamWidth = c.beamWidth,
                    !.habits = c.habits], 0) :
        c \in FrameSettings, seed \in {SEED_A, SEED_B}}

\* The number of calls made on one of these agents.
MaxFrameCalls == 3

\* A call: as NoCall, with the action a direct act() returned since the
\* last step() (NULL: none).
NoFrameCall ==
    [op |-> "new", arg |-> NULL, returned |-> NULL, threw |-> FALSE,
     learnCalls |-> <<>>, acted |-> NULL]

\* `other` holds the action the last direct act() returned since the last
\* step().
FrameInit ==
    /\ agent \in FrameInputs
    /\ lastCall = NoFrameCall
    /\ chosen = [action |-> NULL, belief |-> <<>>]
    /\ other = NULL
    /\ ncalls = 0
    /\ callerBelief = 1
    /\ gotBelief = 0
    /\ callbackBelief = 0
    /\ dirichlet = Idle
    /\ original = Idle
    /\ dcall = Idle
    /\ bcall = Idle

\* agent.observe(o)
FrameObserve(o) ==
    /\ ncalls < MaxFrameCalls
    /\ agent' = observe(agent, o)
    /\ lastCall' = [NoFrameCall EXCEPT !.op = "observe", !.arg = o]
    /\ ncalls' = ncalls + 1
    /\ UNCHANGED <<handles, chosen, other, dirichletVars, bcall>>

\* agent.act()
FrameAct ==
    /\ ncalls < MaxFrameCalls
    /\ \E a \in {act(agent)} :
           /\ agent' = a.agent
           /\ lastCall' = [NoFrameCall EXCEPT !.op = "act",
                                              !.returned = a.action]
           /\ other' = a.action
    /\ ncalls' = ncalls + 1
    /\ UNCHANGED <<handles, chosen, dirichletVars, bcall>>

\* agent.step(o)
FrameStep(o) ==
    /\ ncalls < MaxFrameCalls
    /\ \E r \in {step(agent, o)} :
           /\ agent' = r.agent
           /\ lastCall' = [op |-> "step", arg |-> o, returned |-> r.action,
                           threw |-> r.threw, learnCalls |-> r.learnCalls,
                           acted |-> other]
           /\ callbackBelief' = r.callbackBelief
           /\ chosen' = IF r.threw THEN chosen
                        ELSE [action |-> r.action, belief |-> r.updated]
    /\ other' = NULL
    /\ ncalls' = ncalls + 1
    /\ UNCHANGED <<callerBelief, gotBelief, dirichletVars, bcall>>

\* agent.resetBelief(new DiscreteBelief(d))
FrameReset(d) ==
    /\ ncalls < MaxFrameCalls
    /\ LET heap1 == Append(agent.heap, d)
       IN  /\ agent' = resetBelief([agent EXCEPT !.heap = heap1], Len(heap1))
           /\ callerBelief' = Len(heap1)
    /\ lastCall' = [NoFrameCall EXCEPT !.op = "resetBelief"]
    /\ ncalls' = ncalls + 1
    /\ UNCHANGED <<gotBelief, callbackBelief, chosen, other, dirichletVars,
                   bcall>>

FrameNext ==
    \/ \E o \in Observations : FrameObserve(o)
    \/ FrameAct
    \/ \E o \in Observations : FrameStep(o)
    \/ FrameReset([safe |-> ONE, danger |-> 0])

SpecFrame == FrameInit /\ [][FrameNext]_vars

\* What act() must leave alone: the belief objects and the references to
\* them, the recorded previous action, the settings and the parameters of
\* both models.
ActFrame(old, new) ==
    /\ new.heap = old.heap
    /\ new.belief = old.belief
    /\ new.previousBelief = old.previousBelief
    /\ new.previousAction = old.previousAction
    /\ new.planningHorizon = old.planningHorizon
    /\ new.precision = old.precision
    /\ new.beamWidth = old.beamWidth
    /\ new.habits = old.habits
    /\ new.preferences = old.preferences
    /\ new.observationModel.concentrations
           = old.observationModel.concentrations
    /\ new.transitionModel.concentrations
           = old.transitionModel.concentrations
    /\ ObsMatrix(new.observationModel) = ObsMatrix(old.observationModel)
    /\ TransMatrix(new.transitionModel) = TransMatrix(old.transitionModel)

\* C23: act() changes nothing but the random source: it leaves the belief,
\* the recorded previous action and previous belief and all model
\* parameters unchanged and advances the random source by exactly one draw,
\* whatever the horizon, beam width and habits; observe() and resetBelief()
\* consume no draw.  Consequently the transition learn call of a step()
\* names the action the previous step() returned, and a step() with no
\* step() before it makes none, whatever direct act() calls came between.
ActOnlyDraws ==
    [][/\ lastCall'.op = "act" =>
              /\ ActFrame(agent, agent')
              /\ agent'.random = RandomNext(agent.random).state
              /\ agent'.random # agent.random
       /\ lastCall'.op \in {"observe", "resetBelief"} =>
              agent'.random = agent.random
       /\ (lastCall'.op = "step" /\ ~lastCall'.threw) =>
              /\ agent'.random = RandomNext(agent.random).state
              /\ TransitionLearnCalls(lastCall'.learnCalls) # <<>> =>
                     /\ chosen.action # NULL
                     /\ TransitionLearnCalls(lastCall'.learnCalls)[1].action
                            = chosen.action
              /\ chosen.action = NULL =>
                     TransitionLearnCalls(lastCall'.learnCalls) = <<>>]_vars

\* After a step() and a direct act() that returned another action than the
\* step, a second step() has learnt the transition of the first step's
\* action, under a search of horizon 3.
StepIgnoredDirectAct ==
    /\ lastCall.op = "step"
    /\ ~lastCall.threw
    /\ lastCall.acted # NULL
    /\ TransitionLearnCalls(lastCall.learnCalls) # <<>>
    /\ TransitionLearnCalls(lastCall.learnCalls)[1].action # lastCall.acted
    /\ agent.planningHorizon = 3

\* ----------------------------------------------------------------------
\* The properties below are about the all-zero belief, under Spec and, for
\* the update alone, under SpecBelief.

\* A distribution that assigns 0 to every state.
AllZero(distribution) == \A s \in DOMAIN distribution : distribution[s] = 0

ResetLeftZeroBelief ==
    /\ lastCall.op = "resetBelief"
    /\ Len(agent.heap) >= 4
    /\ AllZero(agent.heap[3])
    /\ ~AllZero(BeliefOf(agent))

\* The update alone: an all-zero prior gives an all-zero posterior, for
\* every likelihood.
ZeroPriorGivesZeroPosterior ==
    (ncalls > 0 /\ AllZero(bcall.prior)) => AllZero(bcall.posterior)

\* Two updates have made the belief all-zero, and a third, with a
\* likelihood that is positive for every state, has left it all-zero.
ZeroOnSupportThenStayedZero ==
    /\ ncalls = 3
    /\ AllZero(bcall.prior)
    /\ AllZero(bcall.posterior)
    /\ \A s \in DOMAIN bcall.prior : Get(bcall.likelihood, s) > 0

\* ------------------------------------------------------ forbidden actions
\* act() under habits that give one action the weight 0, with preferences
\* for either observation and a precision at which the softmin of the
\* worse candidates underflows to 0.  The exponential of this model
\* underflows below about -8.3, the double-precision one below about -745:
\* precision 12 stands here for precisions near 1000.

\* preferences: { see_safe: -5, see_danger: 0 }
PreferencesSwapped == [see_safe |-> (0 - 5) * ONE, see_danger |-> 0]

HabitConfigs ==
    {[Config([safe |-> ONE \div 2, danger |-> ONE \div 2], m, <<SEED_A>>)
          EXCEPT !.preferences = pr, !.planningHorizon = h, !.precision = p,
                 !.beamWidth = bw, !.habits = hb] :
        m \in ModelInputs,
        pr \in {PreferencesFixture, PreferencesSwapped},
        h \in {ONE, 2 * ONE},
        p \in {ONE, 12 * ONE},
        bw \in {0, 2 * ONE},
        hb \in {[flee |-> 0], [stay |-> 0],
                [flee |-> ONE \div 2, stay |-> 0]}}

\* Draws up to 3/4.  The rounded probabilities of this model may total a
\* few units of 2^-12 less than 1, which leaves a gap below 1 that the
\* double-precision total (within 2^-50 of 1, the largest draw being
\* 1 - 2^-32) does not have.
HabitDraws == {u \in DrawInputs : u[1] <= 49152}

\* The number of calls made on one of these agents.
MaxHabitCalls == 2

NoHabitCall ==
    [op |-> "new", arg |-> NULL, returned |-> NULL, search |-> <<>>,
     byDraw |-> <<>>]

HabitInit ==
    /\ other \in HabitConfigs
    /\ agent = createAgent(other, 0)
    /\ lastCall = NoHabitCall
    /\ ncalls = 0
    /\ callerBelief = 1
    /\ gotBelief = 0
    /\ callbackBelief = 0
    /\ chosen = Idle
    /\ dirichlet = Idle
    /\ original = Idle
    /\ dcall = Idle
    /\ bcall = Idle

\* agent.observe(o)
HabitObserve(o) ==
    /\ ncalls < MaxHabitCalls
    /\ agent' = observe(agent, o)
    /\ lastCall' = [NoHabitCall EXCEPT !.op = "observe", !.arg = o]
    /\ ncalls' = ncalls + 1
    /\ UNCHANGED <<handles, chosen, other, dirichletVars, bcall>>

\* agent.act(), with the index sampleIndex returns for the agent's draw
\* and the one it would return for each draw of HabitDraws.
HabitAct ==
    /\ ncalls < MaxHabitCalls
    /\ \E a \in {act(agent)} :
           /\ agent' = a.agent
           /\ lastCall' = [op |-> "act", arg |-> NULL, returned |-> a.action,
                           search |-> [policies    |-> a.policies,
                                       policyEFEs  |-> a.policyEFEs,
                                       policyProbs |-> a.policyProbs,
                                       idx         |-> a.idx],
                           byDraw |-> [u \in HabitDraws |->
                                          sampleIndex(a.policyProbs, u)]]
    /\ ncalls' = ncalls + 1
    /\ UNCHANGED <<handles, chosen, other, dirichletVars, bcall>>

HabitNext ==
    \/ \E o \in Observations : HabitObserve(o)
    \/ HabitAct

SpecHabit == HabitInit /\ [][HabitNext]_vars

\* The actions of a policy.
ActionsOf(policy) == {policy[k] : k \in 1..Len(policy)}

\* Some candidate of the last act() has a positive habit product.
SomeCandidateAllowed ==
    \E i \in 1..Len(lastCall.search.policies) :
        HabitProduct(agent.habits, lastCall.search.policies[i],
                     Len(lastCall.search.policies[i])) > 0

\* The last act() returns no policy containing the action, for its own
\* draw and for every other.
NeverSampled(action) ==
    /\ action \notin ActionsOf(lastCall.search.policies[lastCall.search.idx])
    /\ lastCall.returned # action
    /\ \A u \in HabitDraws :
           action \notin ActionsOf(lastCall.search.policies[lastCall.byDraw[u]])

\* C25: if an action has habit weight 0 and at least one candidate policy
\* has a positive habit product, act() never returns a policy containing
\* that action, for any random draw; in particular it never returns that
\* action.
ZeroHabitActionNeverReturned ==
    (lastCall.op = "act" /\ SomeCandidateAllowed) =>
        \A action \in DOMAIN agent.habits :
            agent.habits[action] = 0 => NeverSampled(action)

\* What holds: the same, when some candidate's softmin value times its
\* habit product is positive.
ZeroHabitActionNeverReturnedWhenWeighted ==
    (lastCall.op = "act" /\ SumSeq(HabitWeighted) > 0) =>
        \A action \in DOMAIN agent.habits :
            agent.habits[action] = 0 => NeverSampled(action)

\* act() chose among four candidates: the one allowed has a positive
\* probability, and one with a positive softmin value has probability 0.
ChoseAmongAllowedCandidates ==
    /\ lastCall.op = "act"
    /\ agent.planningHorizon = 2
    /\ Len(lastCall.search.policies) = 4
    /\ SumSeq(HabitWeighted) > 0
    /\ \E i \in 1..Len(lastCall.search.policies) :
           lastCall.search.policyProbs[i] > 0
    /\ \E i \in 1..Len(lastCall.search.policies) :
           /\ lastCall.search.policyProbs[i] = 0
           /\ softmin(lastCall.search.policyEFEs, agent.precision)[i] > 0

\* act() returned "stay", of habit weight 0, although the candidate "flee"
\* has habit product 1: the softmin value of "flee" had underflowed to 0 and
\* every selection probability was 0 / 0.
ReturnedActionOfWeightZero ==
    /\ lastCall.op = "act"
    /\ agent.planningHorizon = 1
    /\ agent.habits = [stay |-> 0]
    /\ lastCall.search.policies = <<<<"flee">>, <<"stay">>>>
    /\ softmin(lastCall.search.policyEFEs, agent.precision) = <<0, ONE>>
    /\ lastCall.search.policyProbs = <<NaN, NaN>>
    /\ lastCall.returned = "stay"

\* ----------------------------------------------------------------------
\* The property below is about the size of the candidate set of act(),
\* under SpecPlan.

\* The size of the candidate set before extension step i: one policy per
\* action before the first, the survivors of step i - 1 after that.
SizeBefore(i) ==
    IF i = 1 THEN Len(AgentActions) ELSE Len(lastCall.steps[i - 1].kept)

PrunedInSecondStepOnly ==
    /\ lastCall.op = "act"
    /\ agent.planningHorizon = 3
    /\ agent.beamWidth = 4
    /\ Len(lastCall.steps[1].expanded) = 4
    /\ Len(lastCall.steps[1].kept) = 4
    /\ Len(lastCall.steps[2].expanded) = 8
    /\ Len(lastCall.steps[2].kept) = 4

\* ----------------------------------------------------------------------
\* The properties below are about steps whose learning raises and about
\* resetBelief(), under Spec.

\* The concentrations of both models.
Concentrations(w) ==
    <<w.observationModel.concentrations, w.transitionModel.concentrations>>

\* C27: step() is not atomic when learning fails: if the learning phase
\* raises, the agent's belief has already been replaced by the result of
\* the observation update, a new object, while the recorded previous action
\* and previous belief, the random source and all concentrations are as
\* they were before the call.
FailedStepKeepsObservationUpdate ==
    [][(lastCall'.op = "step" /\ lastCall'.threw)
       => /\ agent'.belief # agent.belief
          /\ agent'.belief \notin 1..Len(agent.heap)
          /\ BeliefOf(agent')
                 = BeliefUpdate(BeliefOf(agent),
                                getLikelihood(agent.observationModel,
                                              lastCall'.arg))
          /\ agent'.previousAction = agent.previousAction
          /\ agent'.previousBelief = agent.previousBelief
          /\ agent'.random = agent.random
          /\ Concentrations(agent') = Concentrations(agent)
          /\ lastCall'.returned = NULL]_vars

\* After a step() that returned, a step() of an observation that is no key
\* of the learnable observation model has raised: the belief the first step
\* left is no longer the agent's, and the first step's action and belief
\* are still the recorded previous ones.
SecondStepRaisedInLearning ==
    /\ lastCall.op = "step"
    /\ lastCall.threw
    /\ lastCall.arg = UnknownObs
    /\ agent.observationModel.learnable
    /\ agent.previousAction # NULL
    /\ agent.previousAction = chosen.action
    /\ agent.previousBelief # 0
    /\ agent.belief # agent.previousBelief
    /\ BeliefOf(agent) # agent.heap[agent.previousBelief]

\* C28: resetBelief(b) replaces only the current belief: the recorded
\* previous action and previous belief, the random source and the models
\* are unchanged, so the next step() still performs transition learning
\* with the action and belief recorded by the last step() before the reset.
ResetReplacesOnlyBelief ==
    [][/\ lastCall'.op = "resetBelief" =>
              /\ BeliefOf(agent') = agent'.heap[callerBelief']
              /\ agent'.belief # callerBelief'
              /\ [agent' EXCEPT !.heap = agent.heap, !.belief = agent.belief]
                     = agent
              /\ \A ref \in 1..Len(agent.heap) :
                     agent'.heap[ref] = agent.heap[ref]
       /\ (lastCall.op = "resetBelief" /\ StepReturned
               /\ agent.transitionModel.learnable /\ chosen.action # NULL) =>
              TransitionLearnCalls(lastCall'.learnCalls) =
                  <<[model     |-> "transition",
                     action    |-> chosen.action,
                     prior     |-> chosen.belief,
                     posterior |-> BeliefOf(agent')]>>]_vars

\* A step(), a resetBelief() and a second step(): the second step's
\* transition learn call has the first step's action and the posterior of
\* the first step as its prior, which is not the belief of the reset.
StepAfterResetLearntFromPreviousStep ==
    /\ ncalls = 3
    /\ lastCall.op = "step"
    /\ ~lastCall.threw
    /\ Len(agent.heap) = 6
    /\ callerBelief = 4
    /\ Len(TransitionLearnCalls(lastCall.learnCalls)) = 1
    /\ LET c == TransitionLearnCalls(lastCall.learnCalls)[1]
       IN  /\ c.prior = agent.heap[3]
           /\ c.prior # agent.heap[5]
           /\ c.action \in Actions

\* ------------------------------------------------- Dirichlet preferences
\* A DirichletPreferences is [concentrations, cache, records]: its counts,
\* the reference held by _preferences (0: null) and the Record objects its
\* getter has created so far, in order; a reference is a place in records.

\* new DirichletPreferences(concentrations): a spread copy, no cache.
DirichletPreferencesNew(concentrations) ==
    [concentrations |-> [o \in DOMAIN concentrations |-> concentrations[o]],
     cache |-> 0, records |-> <<>>]

\* DirichletPreferences.normalize(): log(max(c[o] / sum, 1e-16)); the
\* smallest positive fixed-point number stands for 1e-16, and 0 / 0 is NaN.
PrefNormalize(concentrations) ==
    LET obs == Keys(ObsOrder, concentrations)
        Logs(sum) ==
            [o \in DOMAIN concentrations |->
                IF sum = 0 THEN NaN
                ELSE MathLog(Max2(FDiv(concentrations[o], sum), 1))] @@ <<>>
    IN  Only({Logs(sum) : sum \in {SumOver(obs, concentrations)}})

\* get preferences(): the cached object, computed first when there is none.
PrefRead(d) ==
    IF d.cache = 0
    THEN [d EXCEPT !.records = Append(@, PrefNormalize(d.concentrations)),
                   !.cache = Len(d.records) + 1]
    ELSE d

\* A faulty variant of learn that writes the new log-preferences into the
\* cached object instead of dropping it.
PrefLearnInPlace(d, observation, amount) ==
    LET Rewritten(e) ==
            IF e.cache = 0 THEN e
            ELSE [e EXCEPT !.records[e.cache] = PrefNormalize(e.concentrations)]
    IN  Only({Rewritten(e) :
                 e \in {[d EXCEPT !.concentrations[observation] = @ + amount]}})

\* DirichletPreferences.learn(observation, amount)
PrefLearn(d, observation, amount) ==
    [d EXCEPT !.concentrations[observation] = @ + amount, !.cache = 0]

\* Counts: reward-like (10 to 1) and even.
PrefConcentrations ==
    {[see_safe |-> 10 * ONE, see_danger |-> ONE],
     [see_safe |-> ONE, see_danger |-> ONE]}

\* Amounts passed to learn: the default 1, and 5.
PrefAmounts == {ONE, 5 * ONE}

\* The number of calls made in one run.
MaxPrefCalls == 3

NoPrefCall == [op |-> "new", returned |-> 0, policyEFEs |-> <<>>]

\* const prefs = new DirichletPreferences(c);
\* const agent = createAgent({ ..., preferences: prefs.preferences });
\* `original` keeps c, `other` the reference the configuration holds; the
\* agent reads the object behind it each time it scores a belief.
PrefInit ==
    /\ original \in PrefConcentrations
    /\ dirichlet = PrefRead(DirichletPreferencesNew(original))
    /\ other = 1
    /\ agent = createAgent(
                   [Config([safe |-> ONE \div 2, danger |-> ONE \div 2],
                           [transition  |-> DiscreteModel(TransMatrixFixed),
                            observation |-> DiscreteModel(ObsMatrixFixed)],
                           <<SEED_A>>)
                       EXCEPT !.preferences = PrefNormalize(original)], 0)
    /\ dcall = NoPrefCall
    /\ ncalls = 0
    /\ lastCall = Idle
    /\ callerBelief = 1
    /\ gotBelief = 0
    /\ callbackBelief = 0
    /\ chosen = Idle
    /\ bcall = Idle

\* prefs.learn(o, amount)
PreferencesLearn(o, amount) ==
    /\ ncalls < MaxPrefCalls
    /\ \E d \in {PrefLearn(dirichlet, o, amount)} :
           /\ dirichlet' = d
           /\ agent' = [agent EXCEPT !.preferences = d.records[other]]
    /\ dcall' = [NoPrefCall EXCEPT !.op = "learn"]
    /\ ncalls' = ncalls + 1
    /\ UNCHANGED <<handles, lastCall, chosen, other, original, bcall>>

\* prefs.preferences
PreferencesRead ==
    /\ ncalls < MaxPrefCalls
    /\ \E d \in {PrefRead(dirichlet)} :
           /\ dirichlet' = d
           /\ dcall' = [NoPrefCall EXCEPT !.op = "read", !.returned = d.cache]
    /\ ncalls' = ncalls + 1
    /\ UNCHANGED <<agent, handles, lastCall, chosen, other, original, bcall>>

\* agent.act()
PreferencesAct ==
    /\ ncalls < MaxPrefCalls
    /\ \E a \in {act(agent)} :
           /\ agent' = a.agent
           /\ dcall' = [NoPrefCall EXCEPT !.op = "act",
                                          !.returned = a.action,
                                          !.policyEFEs = a.policyEFEs]
    /\ ncalls' = ncalls + 1
    /\ UNCHANGED <<dirichlet, handles, lastCall, chosen, other, original,
                   bcall>>

PrefNext ==
    \/ \E o \in Observations, amount \in PrefAmounts :
          PreferencesLearn(o, amount)
    \/ PreferencesRead
    \/ PreferencesAct

SpecPreferences == PrefInit /\ [][PrefNext]_vars

\* The cumulative EFEs of the agent's candidates under given preferences.
EFEsUnder(preferences) ==
    act([agent EXCEPT !.preferences = preferences]).policyEFEs

\* C29: DirichletPreferences.learn never modifies a preferences object
\* returned by an earlier read of .preferences: the next read returns a
\* newly computed object, so an agent that was configured with the earlier
\* object keeps planning with the pre-learn log-preferences after any
\* number of learn calls.
LearnLeavesReadPreferencesAlone ==
    [][/\ \A ref \in 1..Len(dirichlet.records) :
              dirichlet'.records[ref] = dirichlet.records[ref]
       /\ (dcall.op = "learn" /\ dcall'.op = "read") =>
              /\ dcall'.returned = Len(dirichlet.records) + 1
              /\ dirichlet'.records[dcall'.returned]
                     = PrefNormalize(dirichlet.concentrations)
       /\ agent'.preferences = PrefNormalize(original)
       /\ dcall'.op = "act" =>
              dcall'.policyEFEs = EFEsUnder(PrefNormalize(original))]_vars

\* After two learn calls the agent has planned with the log-preferences of
\* the counts it was configured with, and the counts as they are now would
\* give its candidates other EFEs.
PlannedWithPreLearnPreferences ==
    /\ ncalls = 3
    /\ dcall.op = "act"
    /\ dirichlet.cache = 0
    /\ dirichlet.concentrations # original
    /\ dcall.policyEFEs = EFEsUnder(PrefNormalize(original))
    /\ dcall.policyEFEs # EFEsUnder(PrefNormalize(dirichlet.concentrations))

\* A read after a learn has returned a second object, whose values differ
\* from those of the first.
ReadAfterLearnGaveNewObject ==
    /\ dcall.op = "read"
    /\ dcall.returned = 2
    /\ dirichlet.records[2] # dirichlet.records[1]
    /\ dirichlet.records[1] = PrefNormalize(original)

\* ----------------------------------------------------------------------
\* The property below is about the totals of the concentrations, under
\* Spec.

\* The sum of a distribution, of all observation counts and of all
\* transition counts.
BeliefTotal(distribution) == SumOver(Keys(StateOrder, distribution), distribution)

ObsTotal(c) ==
    SumSeq([i \in 1..Len(ObsOrder) |-> BeliefTotal(c[ObsOrder[i]])])

TransTotal(c) ==
    SumSeq([i \in 1..Len(ActionOrder) |->
        SumSeq([j \in 1..Len(StateOrder) |->
            BeliefTotal(c[ActionOrder[i]][StateOrder[j]])])])

\* A total that is 1 but for the rounding of n fixed-point operations.
UnitMass(total, n) == total <= ONE /\ ONE - total < n

\* C30: learning conserves evidence mass: a step() that leaves a belief
\* summing to 1 adds 1 to the sum of all observation concentrations; a
\* first step() adds nothing to the transition concentrations, and every
\* later one, the belief recorded by the step before it summing to 1 too,
\* adds 1 to their sum, all of it in the entries of the action the
\* preceding step returned.  So after n such steps the sums are the initial
\* ones plus n and plus n - 1.
LearningConservesMass ==
    [][(StepReturned /\ agent.observationModel.learnable
            /\ agent.transitionModel.learnable
            /\ UnitMass(BeliefTotal(BeliefOf(agent')), Len(StateOrder)))
       => /\ UnitMass(ObsTotal(agent'.observationModel.concentrations)
                          - ObsTotal(agent.observationModel.concentrations),
                      Len(StateOrder))
          /\ chosen.action = NULL =>
                 agent'.transitionModel.concentrations
                     = agent.transitionModel.concentrations
          /\ (chosen.action # NULL
                  /\ UnitMass(BeliefTotal(chosen.belief), Len(StateOrder))) =>
                 /\ UnitMass(
                        TransTotal(agent'.transitionModel.concentrations)
                            - TransTotal(agent.transitionModel.concentrations),
                        Len(StateOrder) * Len(StateOrder) + Len(StateOrder))
                 /\ \A a \in Actions \ {chosen.action} :
                        agent'.transitionModel.concentrations[a]
                            = agent.transitionModel.concentrations[a]
                 /\ agent'.transitionModel.concentrations[chosen.action]
                        # agent.transitionModel.concentrations[chosen.action]
      ]_vars

\* Three steps have run on beliefs summing to 1: the observation counts
\* total their initial sum plus 3 and the transition counts theirs plus 2,
\* but for rounding.
ThreeStepsAddedThreeAndTwo ==
    /\ ncalls = 3
    /\ lastCall.op = "step"
    /\ ~lastCall.threw
    /\ Len(lastCall.learnCalls) = 2
    /\ UnitMass(BeliefTotal(BeliefOf(agent)), Len(StateOrder))
    /\ LET added == ObsTotal(agent.observationModel.concentrations)
                        - ObsTotal(ObsConcentrations)
       IN  added <= 3 * ONE /\ 3 * ONE - added < 3 * Len(StateOrder)
    /\ LET added == TransTotal(agent.transitionModel.concentrations)
                        - TransTotal(TransConcentrations)
       IN  added <= 2 * ONE /\ 2 * ONE - added < 12

\* A step() on an all-zero belief has returned and added nothing to the
\* observation counts.
StepOnZeroBeliefAddedNothing ==
    /\ lastCall.op = "step"
    /\ ~lastCall.threw
    /\ agent.observationModel.learnable
    /\ AllZero(BeliefOf(agent))
    /\ ObsTotal(agent.observationModel.concentrations)
           = ObsTotal(ObsConcentrations)
====
